---- MODULE Spec2Model ----
(***************************************************************************)
(* Analog gauge reader of image_to_sensor_cv                               *)
(* (src/image_processing_simple.py, SimpleAnalogGaugeProcessor).           *)
(*                                                                         *)
(* Angles are integers counted in units of 1/AngleScale degree, the        *)
(* resolution of _refine_needle_angle (0.5 degree); calibration values are *)
(* integers and a mapped value is an exact fraction [num, den], den > 0.   *)
(***************************************************************************)
EXTENDS Integers, Naturals, Sequences, FiniteSets, TLC

VARIABLES
    constructed,   \* "no", "processor" (a SimpleAnalogGaugeProcessor exists) or "ValueError"
    config,        \* self.config: the calibration keys present and the crop configuration
    input,         \* the argument image of the invocation of process_image
    image,         \* the local variable image / gray_array of the invocation
    pc,            \* position of the invocation of process_image
    stages,        \* the stages this invocation has executed, in order
    n_candidates,  \* len(candidates) at the end of the center search
    scan,          \* best_center, best_radius, best_score, top_candidates and candidates of the search
    geometry,      \* what _detect_gauge_center returned (a tuple)
    needle_angle,  \* what _find_needle_angle_simple returned: None or <<angle>>
    caught,        \* the exception an except clause of this invocation caught ("" = none)
    result,        \* what process_image handed to its caller
    suspended,     \* the locals of a second invocation of process_image, while it does not run
    coordinator,   \* ImageSensorCoordinator: data, last_update_success, and whether the entities exist
    update,        \* the running call of _async_update_data: its position and its results
    hass           \* Home Assistant: the config entries, hass.data[DOMAIN], the services, the options flow

vars == <<constructed, config, input, image, pc, stages, n_candidates, scan, geometry,
          needle_angle, caught, result, suspended, coordinator, update, hass>>

\* Python's None, for the optional needle angle: <<>> or <<angle>>
None == <<>>

----------------------------------------------------------------------------
(* Units and outcomes                                                      *)

\* angle_offset * 0.5: two angle units per degree
AngleScale == 2

Deg(d) == d * AngleScale

Rat(n, d) == [num |-> n, den |-> d]

RatLess(a, b) == a.num * b.den < b.num * a.den

RatEq(a, b) == a.num * b.den = b.num * a.den

RatLeq(a, b) == a.num * b.den <= b.num * a.den

\* what a call hands back: a number (an exact fraction), None, or an exception
Return(v) == [kind |-> "value", num |-> v.num, den |-> v.den, exc |-> ""]

ReturnNone == [kind |-> "None", num |-> 0, den |-> 1, exc |-> ""]

Raise(e) == [kind |-> "raise", num |-> 0, den |-> 1, exc |-> e]

Pending == [kind |-> "pending", num |-> 0, den |-> 1, exc |-> ""]

----------------------------------------------------------------------------
(* Floating-point trigonometry of the sampling loops                       *)
(*                                                                         *)
(* math.cos / math.sin values are kept in fixed point (TrigScale) together *)
(* with the rounding residue of the values that are exactly 0, 1/2 or 1 in *)
(* real arithmetic: int(c + k * t) truncates toward zero, and a residue    *)
(* such as sin(pi) = 1.22e-16 decides whether c - r * sin(pi) is c or      *)
(* c - 1.  Residues are counted in units of 2^-70.                         *)

TrigScale == 10^6

CosTable ==
    << 1000000, 999962, 999848, 999657, 999391, 999048, 998630, 998135, 997564, 996917, 996195, 995396,
       994522, 993572, 992546, 991445, 990268, 989016, 987688, 986286, 984808, 983255, 981627, 979925,
       978148, 976296, 974370, 972370, 970296, 968148, 965926, 963630, 961262, 958820, 956305, 953717,
       951057, 948324, 945519, 942641, 939693, 936672, 933580, 930418, 927184, 923880, 920505, 917060,
       913545, 909961, 906308, 902585, 898794, 894934, 891007, 887011, 882948, 878817, 874620, 870356,
       866025, 861629, 857167, 852640, 848048, 843391, 838671, 833886, 829038, 824126, 819152, 814116,
       809017, 803857, 798636, 793353, 788011, 782608, 777146, 771625, 766044, 760406, 754710, 748956,
       743145, 737277, 731354, 725374, 719340, 713250, 707107, 700909, 694658, 688355, 681998, 675590,
       669131, 662620, 656059, 649448, 642788, 636078, 629320, 622515, 615661, 608761, 601815, 594823,
       587785, 580703, 573576, 566406, 559193, 551937, 544639, 537300, 529919, 522499, 515038, 507538,
       500000, 492424, 484810, 477159, 469472, 461749, 453990, 446198, 438371, 430511, 422618, 414693,
       406737, 398749, 390731, 382683, 374607, 366501, 358368, 350207, 342020, 333807, 325568, 317305,
       309017, 300706, 292372, 284015, 275637, 267238, 258819, 250380, 241922, 233445, 224951, 216440,
       207912, 199368, 190809, 182236, 173648, 165048, 156434, 147809, 139173, 130526, 121869, 113203,
       104528, 95846, 87156, 78459, 69756, 61049, 52336, 43619, 34899, 26177, 17452, 8727,
       0, -8727, -17452, -26177, -34899, -43619, -52336, -61049, -69756, -78459, -87156, -95846,
       -104528, -113203, -121869, -130526, -139173, -147809, -156434, -165048, -173648, -182236, -190809, -199368,
       -207912, -216440, -224951, -233445, -241922, -250380, -258819, -267238, -275637, -284015, -292372, -300706,
       -309017, -317305, -325568, -333807, -342020, -350207, -358368, -366501, -374607, -382683, -390731, -398749,
       -406737, -414693, -422618, -430511, -438371, -446198, -453990, -461749, -469472, -477159, -484810, -492424,
       -500000, -507538, -515038, -522499, -529919, -537300, -544639, -551937, -559193, -566406, -573576, -580703,
       -587785, -594823, -601815, -608761, -615661, -622515, -629320, -636078, -642788, -649448, -656059, -662620,
       -669131, -675590, -681998, -688355, -694658, -700909, -707107, -713250, -719340, -725374, -731354, -737277,
       -743145, -748956, -754710, -760406, -766044, -771625, -777146, -782608, -788011, -793353, -798636, -803857,
       -809017, -814116, -819152, -824126, -829038, -833886, -838671, -843391, -848048, -852640, -857167, -861629,
       -866025, -870356, -874620, -878817, -882948, -887011, -891007, -894934, -898794, -902585, -906308, -909961,
       -913545, -917060, -920505, -923880, -927184, -930418, -933580, -936672, -939693, -942641, -945519, -948324,
       -951057, -953717, -956305, -958820, -961262, -963630, -965926, -968148, -970296, -972370, -974370, -976296,
       -978148, -979925, -981627, -983255, -984808, -986286, -987688, -989016, -990268, -991445, -992546, -993572,
       -994522, -995396, -996195, -996917, -997564, -998135, -998630, -999048, -999391, -999657, -999848, -999962,
       -1000000, -999962, -999848, -999657, -999391, -999048, -998630, -998135, -997564, -996917, -996195, -995396,
       -994522, -993572, -992546, -991445, -990268, -989016, -987688, -986286, -984808, -983255, -981627, -979925,
       -978148, -976296, -974370, -972370, -970296, -968148, -965926, -963630, -961262, -958820, -956305, -953717,
       -951057, -948324, -945519, -942641, -939693, -936672, -933580, -930418, -927184, -923880, -920505, -917060,
       -913545, -909961, -906308, -902585, -898794, -894934, -891007, -887011, -882948, -878817, -874620, -870356,
       -866025, -861629, -857167, -852640, -848048, -843391, -838671, -833886, -829038, -824126, -819152, -814116,
       -809017, -803857, -798636, -793353, -788011, -782608, -777146, -771625, -766044, -760406, -754710, -748956,
       -743145, -737277, -731354, -725374, -719340, -713250, -707107, -700909, -694658, -688355, -681998, -675590,
       -669131, -662620, -656059, -649448, -642788, -636078, -629320, -622515, -615661, -608761, -601815, -594823,
       -587785, -580703, -573576, -566406, -559193, -551937, -544639, -537300, -529919, -522499, -515038, -507538,
       -500000, -492424, -484810, -477159, -469472, -461749, -453990, -446198, -438371, -430511, -422618, -414693,
       -406737, -398749, -390731, -382683, -374607, -366501, -358368, -350207, -342020, -333807, -325568, -317305,
       -309017, -300706, -292372, -284015, -275637, -267238, -258819, -250380, -241922, -233445, -224951, -216440,
       -207912, -199368, -190809, -182236, -173648, -165048, -156434, -147809, -139173, -130526, -121869, -113203,
       -104528, -95846, -87156, -78459, -69756, -61049, -52336, -43619, -34899, -26177, -17452, -8727,
       0, 8727, 17452, 26177, 34899, 43619, 52336, 61049, 69756, 78459, 87156, 95846,
       104528, 113203, 121869, 130526, 139173, 147809, 156434, 165048, 173648, 182236, 190809, 199368,
       207912, 216440, 224951, 233445, 241922, 250380, 258819, 267238, 275637, 284015, 292372, 300706,
       309017, 317305, 325568, 333807, 342020, 350207, 358368, 366501, 374607, 382683, 390731, 398749,
       406737, 414693, 422618, 430511, 438371, 446198, 453990, 461749, 469472, 477159, 484810, 492424,
       500000, 507538, 515038, 522499, 529919, 537300, 544639, 551937, 559193, 566406, 573576, 580703,
       587785, 594823, 601815, 608761, 615661, 622515, 629320, 636078, 642788, 649448, 656059, 662620,
       669131, 675590, 681998, 688355, 694658, 700909, 707107, 713250, 719340, 725374, 731354, 737277,
       743145, 748956, 754710, 760406, 766044, 771625, 777146, 782608, 788011, 793353, 798636, 803857,
       809017, 814116, 819152, 824126, 829038, 833886, 838671, 843391, 848048, 852640, 857167, 861629,
       866025, 870356, 874620, 878817, 882948, 887011, 891007, 894934, 898794, 902585, 906308, 909961,
       913545, 917060, 920505, 923880, 927184, 930418, 933580, 936672, 939693, 942641, 945519, 948324,
       951057, 953717, 956305, 958820, 961262, 963630, 965926, 968148, 970296, 972370, 974370, 976296,
       978148, 979925, 981627, 983255, 984808, 986286, 987688, 989016, 990268, 991445, 992546, 993572,
       994522, 995396, 996195, 996917, 997564, 998135, 998630, 999048, 999391, 999657, 999848, 999962 >>

\* the table of math.cos((2 * math.pi * i) / num_samples), i = 0 .. num_samples - 1,
\* for each num_samples the scanned radii give
CosCircleTable ==
    [n \in {16, 25, 37, 50, 56, 62, 69, 81, 94} |->
     CASE n = 16 ->
         << 1000000, 923880, 707107, 382683, 0, -382683, -707107, -923880, -1000000, -923880, -707107, -382683, 0, 382683, 707107, 923880 >>
       [] n = 25 ->
         << 1000000, 968583, 876307, 728969, 535827, 309017, 62791, -187381, -425779, -637424, -809017, -929776,
         -992115, -992115, -929776, -809017, -637424, -425779, -187381, 62791, 309017, 535827, 728969, 876307,
         968583 >>
       [] n = 37 ->
         << 1000000, 985616, 942877, 873014, 778036, 660675, 524307, 372856, 210679, 42441, -127018, -292823,
         -450204, -594633, -721956, -828510, -911228, -967733, -996397, -996397, -967733, -911228, -828510, -721956,
         -594633, -450204, -292823, -127018, 42441, 210679, 372856, 524307, 660675, 778036, 873014, 942877,
         985616 >>
       [] n = 50 ->
         << 1000000, 992115, 968583, 929776, 876307, 809017, 728969, 637424, 535827, 425779, 309017, 187381,
         62791, -62791, -187381, -309017, -425779, -535827, -637424, -728969, -809017, -876307, -929776, -968583,
         -992115, -1000000, -992115, -968583, -929776, -876307, -809017, -728969, -637424, -535827, -425779, -309017,
         -187381, -62791, 62791, 187381, 309017, 425779, 535827, 637424, 728969, 809017, 876307, 929776,
         968583, 992115 >>
       [] n = 56 ->
         << 1000000, 993712, 974928, 943883, 900969, 846724, 781831, 707107, 623490, 532032, 433884, 330279,
         222521, 111964, 0, -111964, -222521, -330279, -433884, -532032, -623490, -707107, -781831, -846724,
         -900969, -943883, -974928, -993712, -1000000, -993712, -974928, -943883, -900969, -846724, -781831, -707107,
         -623490, -532032, -433884, -330279, -222521, -111964, 0, 111964, 222521, 330279, 433884, 532032,
         623490, 707107, 781831, 846724, 900969, 943883, 974928, 993712 >>
       [] n = 62 ->
         << 1000000, 994869, 979530, 954139, 918958, 874347, 820763, 758758, 688967, 612106, 528964, 440394,
         347305, 250653, 151428, 50649, -50649, -151428, -250653, -347305, -440394, -528964, -612106, -688967,
         -758758, -820763, -874347, -918958, -954139, -979530, -994869, -1000000, -994869, -979530, -954139, -918958,
         -874347, -820763, -758758, -688967, -612106, -528964, -440394, -347305, -250653, -151428, -50649, 50649,
         151428, 250653, 347305, 440394, 528964, 612106, 688967, 758758, 820763, 874347, 918958, 954139,
         979530, 994869 >>
       [] n = 69 ->
         << 1000000, 995857, 983462, 962917, 934394, 898128, 854419, 803631, 746184, 682553, 613267, 538899,
         460065, 377419, 291646, 203456, 113580, 22763, -68242, -158683, -247808, -334880, -419177, -500000,
         -576680, -648582, -715110, -775711, -829885, -877183, -917211, -949640, -974199, -990686, -998964, -998964,
         -990686, -974199, -949640, -917211, -877183, -829885, -775711, -715110, -648582, -576680, -500000, -419177,
         -334880, -247808, -158683, -68242, 22763, 113580, 203456, 291646, 377419, 460065, 538899, 613267,
         682553, 746184, 803631, 854419, 898128, 934394, 962917, 983462, 995857 >>
       [] n = 81 ->
         << 1000000, 996993, 987990, 973045, 952248, 925724, 893633, 856167, 813552, 766044, 713930, 657521,
         597159, 533204, 466044, 396080, 323734, 249441, 173648, 96811, 19391, -58145, -135331, -211704,
         -286803, -360178, -431386, -500000, -565607, -627812, -686242, -740544, -790393, -835488, -875558, -910363,
         -939693, -963371, -981255, -993238, -999248, -999248, -993238, -981255, -963371, -939693, -910363, -875558,
         -835488, -790393, -740544, -686242, -627812, -565607, -500000, -431386, -360178, -286803, -211704, -135331,
         -58145, 19391, 96811, 173648, 249441, 323734, 396080, 466044, 533204, 597159, 657521, 713930,
         766044, 813552, 856167, 893633, 925724, 952248, 973045, 987990, 996993 >>
       [] n = 94 ->
         << 1000000, 997767, 991077, 979962, 964469, 944669, 920650, 892519, 860402, 824442, 784799, 741652,
         695192, 645628, 593180, 538082, 480582, 420935, 359408, 296276, 231820, 166329, 100096, 33415,
         -33415, -100096, -166329, -231820, -296276, -359408, -420935, -480582, -538082, -593180, -645628, -695192,
         -741652, -784799, -824442, -860402, -892519, -920650, -944669, -964469, -979962, -991077, -997767, -1000000,
         -997767, -991077, -979962, -964469, -944669, -920650, -892519, -860402, -824442, -784799, -741652, -695192,
         -645628, -593180, -538082, -480582, -420935, -359408, -296276, -231820, -166329, -100096, -33415, 33415,
         100096, 166329, 231820, 296276, 359408, 420935, 480582, 538082, 593180, 645628, 695192, 741652,
         784799, 824442, 860402, 892519, 920650, 944669, 964469, 979962, 991077, 997767 >>]

\* the table of math.sin((2 * math.pi * i) / num_samples), i = 0 .. num_samples - 1,
\* for each num_samples the scanned radii give
SinCircleTable ==
    [n \in {16, 25, 37, 50, 56, 62, 69, 81, 94} |->
     CASE n = 16 ->
         << 0, 382683, 707107, 923880, 1000000, 923880, 707107, 382683, 0, -382683, -707107, -923880, -1000000, -923880, -707107, -382683 >>
       [] n = 25 ->
         << 0, 248690, 481754, 684547, 844328, 951057, 998027, 982287, 904827, 770513, 587785, 368125,
         125333, -125333, -368125, -587785, -770513, -904827, -982287, -998027, -951057, -844328, -684547, -481754,
         -248690 >>
       [] n = 37 ->
         << 0, 169001, 333140, 487695, 628220, 750672, 851529, 927889, 977555, 999099, 991900, 956167,
         892926, 803997, 691939, 559975, 411901, 251978, 84806, -84806, -251978, -411901, -559975, -691939,
         -803997, -892926, -956167, -991900, -999099, -977555, -927889, -851529, -750672, -628220, -487695, -333140,
         -169001 >>
       [] n = 50 ->
         << 0, 125333, 248690, 368125, 481754, 587785, 684547, 770513, 844328, 904827, 951057, 982287,
         998027, 998027, 982287, 951057, 904827, 844328, 770513, 684547, 587785, 481754, 368125, 248690,
         125333, 0, -125333, -248690, -368125, -481754, -587785, -684547, -770513, -844328, -904827, -951057,
         -982287, -998027, -998027, -982287, -951057, -904827, -844328, -770513, -684547, -587785, -481754, -368125,
         -248690, -125333 >>
       [] n = 56 ->
         << 0, 111964, 222521, 330279, 433884, 532032, 623490, 707107, 781831, 846724, 900969, 943883,
         974928, 993712, 1000000, 993712, 974928, 943883, 900969, 846724, 781831, 707107, 623490, 532032,
         433884, 330279, 222521, 111964, 0, -111964, -222521, -330279, -433884, -532032, -623490, -707107,
         -781831, -846724, -900969, -943883, -974928, -993712, -1000000, -993712, -974928, -943883, -900969, -846724,
         -781831, -707107, -623490, -532032, -433884, -330279, -222521, -111964 >>
       [] n = 62 ->
         << 0, 101168, 201299, 299363, 394356, 485302, 571268, 651372, 724793, 790776, 848644, 897805,
         937752, 968077, 988468, 998717, 998717, 988468, 968077, 937752, 897805, 848644, 790776, 724793,
         651372, 571268, 485302, 394356, 299363, 201299, 101168, 0, -101168, -201299, -299363, -394356,
         -485302, -571268, -651372, -724793, -790776, -848644, -897805, -937752, -968077, -988468, -998717, -998717,
         -988468, -968077, -937752, -897805, -848644, -790776, -724793, -651372, -571268, -485302, -394356, -299363,
         -201299, -101168 >>
       [] n = 69 ->
         << 0, 90935, 181116, 269797, 356242, 439735, 519584, 595128, 665740, 730836, 789876, 842371,
         887885, 926043, 956526, 979084, 993529, 999741, 997669, 987330, 968809, 942261, 907905, 866025,
         816970, 761145, 699012, 631088, 557934, 480157, 398401, 313344, 225690, 136167, 45515, -45515,
         -136167, -225690, -313344, -398401, -480157, -557934, -631088, -699012, -761145, -816970, -866025, -907905,
         -942261, -968809, -987330, -997669, -999741, -993529, -979084, -956526, -926043, -887885, -842371, -789876,
         -730836, -665740, -595128, -519584, -439735, -356242, -269797, -181116, -90935 >>
       [] n = 81 ->
         << 0, 77492, 154519, 230616, 305326, 378200, 448799, 516699, 581492, 642788, 700217, 753436,
         802123, 845986, 884762, 918216, 946148, 968390, 984808, 995303, 999812, 998308, 990800, 977334,
         957990, 932884, 902167, 866025, 824675, 778365, 727374, 672008, 612601, 549509, 483113, 413811,
         342020, 268173, 192712, 116093, 38775, -38775, -116093, -192712, -268173, -342020, -413811, -483113,
         -549509, -612601, -672008, -727374, -778365, -824675, -866025, -902167, -932884, -957990, -977334, -990800,
         -998308, -999812, -995303, -984808, -968390, -946148, -918216, -884762, -845986, -802123, -753436, -700217,
         -642788, -581492, -516699, -448799, -378200, -305326, -230616, -154519, -77492 >>
       [] n = 94 ->
         << 0, 66793, 133287, 199186, 264195, 328025, 390389, 451010, 509617, 565947, 619750, 670785,
         718824, 763652, 805070, 842892, 876950, 907091, 933181, 955102, 972759, 986070, 994978, 999442,
         999442, 994978, 986070, 972759, 955102, 933181, 907091, 876950, 842892, 805070, 763652, 718824,
         670785, 619750, 565947, 509617, 451010, 390389, 328025, 264195, 199186, 133287, 66793, 0,
         -66793, -133287, -199186, -264195, -328025, -390389, -451010, -509617, -565947, -619750, -670785, -718824,
         -763652, -805070, -842892, -876950, -907091, -933181, -955102, -972759, -986070, -994978, -999442, -999442,
         -994978, -986070, -972759, -955102, -933181, -907091, -876950, -842892, -805070, -763652, -718824, -670785,
         -619750, -565947, -509617, -451010, -390389, -328025, -264195, -199186, -133287, -66793 >>]

\* math.cos(math.radians(h / 2)) - exact value, for the half-degree angles
\* whose cosine is exactly 0 or +-1/2
CosResidue(h) ==
    CASE h = 120 -> 131072
      [] h = 180 -> 72290
      [] h = 240 -> 262144
      [] h = 480 -> -524288
      [] h = 540 -> -216871
      [] h = 600 -> 131072
      [] OTHER -> 0

SinResidue(h) ==
    CASE h = 60 -> -65536
      [] h = 300 -> -65536
      [] h = 360 -> 144581
      [] h = 420 -> -131072
      [] h = 660 -> -524288
      [] OTHER -> 0

\* cos and sin of angle_rad = math.radians(angle_deg), angle_deg = h / AngleScale
CosDeg(h) == [fx |-> CosTable[(h % Deg(360)) + 1], err |-> CosResidue(h % Deg(360))]

SinDeg(h) == [fx |-> CosTable[((h - Deg(90)) % Deg(360)) + 1], err |-> SinResidue(h % Deg(360))]

\* cos and sin of angle = (2 * math.pi * i) / num_samples
CosCircle(n, i) ==
    [fx |-> CosCircleTable[n][i + 1],
     err |-> IF 4 * i = n THEN 72290
             ELSE IF 4 * i = 3 * n THEN -216871
             ELSE IF 3 * i = n THEN 262144
             ELSE IF 3 * i = 2 * n THEN -524288
             ELSE 0]

SinCircle(n, i) ==
    [fx |-> SinCircleTable[n][i + 1],
     err |-> IF 2 * i = n THEN (IF n = 94 THEN -379707 ELSE 144581) ELSE 0]

\* half the spacing of the doubles just below the integer n >= 1
RECURSIVE HalfUlpBelow(_)
HalfUlpBelow(n) == IF n <= 1 THEN 2^16 ELSE 2 * HalfUlpBelow((n + 1) \div 2)

Trunc(v) == IF v >= 0 THEN v \div TrigScale ELSE -((-v) \div TrigScale)

\* int(c + k * t) for integers c, k and a trigonometric value t
PyInt(c, k, t) ==
    IF (2 * t.fx) % TrigScale = 0 /\ (k * ((2 * t.fx) \div TrigScale)) % 2 = 0
    THEN LET n == c + (k * ((2 * t.fx) \div TrigScale)) \div 2
             r == k * t.err
         IN  IF r < 0 /\ n >= 1 /\ -r > HalfUlpBelow(n) THEN n - 1
             ELSE IF r > 0 /\ n <= -1 /\ r > HalfUlpBelow(-n) THEN n + 1
             ELSE n
    ELSE Trunc(c * TrigScale + k * t.fx)


----------------------------------------------------------------------------
(* _angle_to_value                                                         *)

CalKeys == {"min_angle_hours", "max_angle_hours", "min_value", "max_value"}

\* min_angle_deg = self.config["min_angle_hours"] * 30
HoursToDeg(hours) == hours * Deg(30)

ClockAngleMirrored(angle) == (angle - Deg(90)) % Deg(360)

ClockAngleUnwrapped(angle) == Deg(90) - angle

\* clock_angle = (90 - angle) % 360
ClockAngle(angle) == (Deg(90) - angle) % Deg(360)

WrapsNever(cfg) == FALSE

\* if min_angle_deg > max_angle_deg
Wraps(cfg) == HoursToDeg(cfg["min_angle_hours"]) > HoursToDeg(cfg["max_angle_hours"])

AngleNormalizedNoWrap(cfg, angle) == ClockAngle(angle) - HoursToDeg(cfg["min_angle_hours"])

AngleNormalizedNearestEnd(cfg, angle) ==
    LET min_angle_deg == HoursToDeg(cfg["min_angle_hours"])
        max_angle_deg == HoursToDeg(cfg["max_angle_hours"])
        clock_angle == ClockAngle(angle)
    IN  IF Wraps(cfg) /\ clock_angle < min_angle_deg /\ clock_angle > max_angle_deg
        THEN IF min_angle_deg - clock_angle < clock_angle - max_angle_deg
             THEN clock_angle - min_angle_deg
             ELSE (Deg(360) - min_angle_deg) + clock_angle
        ELSE AngleNormalizedNoWrap(cfg, angle) + (IF Wraps(cfg) /\ clock_angle < min_angle_deg
                                                  THEN Deg(360) ELSE 0)

\* angle_normalized, in both branches of the wrap test
AngleNormalized(cfg, angle) ==
    LET min_angle_deg == HoursToDeg(cfg["min_angle_hours"])
        clock_angle == ClockAngle(angle)
    IN  IF Wraps(cfg)
        THEN IF clock_angle >= min_angle_deg
             THEN clock_angle - min_angle_deg
             ELSE (Deg(360) - min_angle_deg) + clock_angle
        ELSE clock_angle - min_angle_deg

TotalRangeNoWrap(cfg) == HoursToDeg(cfg["max_angle_hours"]) - HoursToDeg(cfg["min_angle_hours"])

\* total_range, in both branches of the wrap test
TotalRange(cfg) ==
    LET min_angle_deg == HoursToDeg(cfg["min_angle_hours"])
        max_angle_deg == HoursToDeg(cfg["max_angle_hours"])
    IN  IF Wraps(cfg)
        THEN (Deg(360) - min_angle_deg) + max_angle_deg
        ELSE max_angle_deg - min_angle_deg

\* new_value = (angle_normalized / total_range) * value_range + min_value
NewValue(cfg, angle) ==
    LET value_range == cfg["max_value"] - cfg["min_value"]
    IN  Rat(AngleNormalized(cfg, angle) * value_range + cfg["min_value"] * TotalRange(cfg),
            TotalRange(cfg))

\* Python's min(a, b) and max(a, b): the first argument unless the second is
\* strictly smaller (larger)
PyMin(a, b) == IF RatLess(b, a) THEN b ELSE a

PyMax(a, b) == IF RatLess(a, b) THEN b ELSE a

ClampedBelowOnly(min_value, max_value, new_value) ==
    PyMax(Rat(min_value, 1), new_value)

\* clamped_value = max(min_value, min(max_value, new_value))
Clamped(min_value, max_value, new_value) ==
    PyMax(Rat(min_value, 1), PyMin(Rat(max_value, 1), new_value))

DegenerateNever(cfg) == FALSE

\* if total_range == 0
Degenerate(cfg) == TotalRange(cfg) = 0

\* DEFAULT_MIN_ANGLE_HOURS, DEFAULT_MAX_ANGLE_HOURS, DEFAULT_MIN_VALUE, DEFAULT_MAX_VALUE
DefaultCalibration ==
    ("min_angle_hours" :> 7) @@ ("max_angle_hours" :> 5) @@ ("min_value" :> 0)
        @@ ("max_value" :> 100)

\* the mapping of a calibration that has every key
MapComplete(cfg, angle) ==
    IF Degenerate(cfg)
    THEN Return(Rat(cfg["min_value"], 1))
    ELSE IF TotalRange(cfg) = 0
    THEN Raise("ZeroDivisionError")
    ELSE Return(Clamped(cfg["min_value"], cfg["max_value"], NewValue(cfg, angle)))

AngleToValueDefaults(cfg, angle) ==
    MapComplete([k \in CalKeys |-> IF k \in DOMAIN cfg THEN cfg[k] ELSE DefaultCalibration[k]],
                angle)

\* self.config["min_angle_hours"], ["max_angle_hours"], ["min_value"],
\* ["max_value"]: a missing key raises KeyError; a zero divisor in
\* angle_normalized / total_range raises ZeroDivisionError
_angle_to_value(cfg, angle) ==
    IF ~(CalKeys \subseteq DOMAIN cfg)
    THEN Raise("KeyError")
    ELSE MapComplete(cfg, angle)

----------------------------------------------------------------------------
(* Images: gray_array, a height x width grid of brightness samples 0..255  *)

\* a well-formed grayscale array of the family below
Gray(w, h, level, cx0, cy0, r, dx, dy) ==
    [kind |-> "gray", w |-> w, h |-> h, ox |-> 0, oy |-> 0, level |-> level,
     cx0 |-> cx0, cy0 |-> cy0, r |-> r, dx |-> dx, dy |-> dy]

\* constant brightness
Flat(w, h, level) == Gray(w, h, level, 0, 0, -1, 0, 0)

\* an empty array, of shape (0, 0)
Empty == [Flat(0, 0, 0) EXCEPT !.kind = "empty"]

\* a wrongly shaped array: one dimension, shape (n,)
OneDim(n, level) == [Flat(1, n, level) EXCEPT !.kind = "one_dim"]

\* (x, y) of the uncropped array lies on the dial face
InDisc(img, x, y) ==
    (x - img.cx0) * (x - img.cx0) + (y - img.cy0) * (y - img.cy0) <= img.r * img.r

\* the dark needle: the pixels (cx0, cy0) + t * (dx, dy), 1 <= t <= r
OnNeedle(img, x, y) ==
    /\ <<img.dx, img.dy>> # <<0, 0>>
    /\ \E t \in 1..img.r : x = img.cx0 + t * img.dx /\ y = img.cy0 + t * img.dy

\* gray_array[y, x]: a bright dial face (255) of radius r around (cx0, cy0)
\* with a dark needle, on a background of brightness level
Pixel(img, x, y) ==
    IF InDisc(img, x + img.ox, y + img.oy)
    THEN IF OnNeedle(img, x + img.ox, y + img.oy) THEN 0 ELSE 255
    ELSE img.level

InBounds(img, x, y) == 0 <= x /\ x < img.w /\ 0 <= y /\ y < img.h

----------------------------------------------------------------------------
(* Python helpers                                                          *)

PyMaxInt(a, b) == IF b > a THEN b ELSE a

PyMinInt(a, b) == IF b < a THEN b ELSE a

\* list(range(a, b, step)), step > 0
PyRange(a, b, step) ==
    [i \in 1..(IF b > a THEN (b - a + step - 1) \div step ELSE 0) |-> a + (i - 1) * step]

\* s[lo] + ... + s[hi]
RECURSIVE SumRange(_, _, _)
SumRange(s, lo, hi) ==
    IF lo > hi THEN 0
    ELSE IF lo = hi THEN s[lo]
    ELSE SumRange(s, lo, (lo + hi) \div 2) + SumRange(s, (lo + hi) \div 2 + 1, hi)

SeqSum(s) == SumRange(s, 1, Len(s))

----------------------------------------------------------------------------
(* Configuration and crop_image                                            *)

\* the calibration part of a processor configuration dictionary
Calibration(min_hours, max_hours, min_value, max_value) ==
    ("min_angle_hours" :> min_hours) @@ ("max_angle_hours" :> max_hours)
        @@ ("min_value" :> min_value) @@ ("max_value" :> max_value)

\* the dictionary without some keys
Without(cal, keys) == [k \in (DOMAIN cal) \ keys |-> cal[k]]

NoCrop == [present |-> FALSE, x |-> 0, y |-> 0, width |-> 0, height |-> 0]

Crop(x, y, width, height) ==
    [present |-> TRUE, x |-> x, y |-> y, width |-> width, height |-> height]

\* x = max(0, min(x, image.shape[1]))
CropStart(v, size) == PyMaxInt(0, PyMinInt(v, size))

\* width = min(width, image.shape[1] - x)
CropExtent(extent, start, size) == PyMinInt(extent, size - start)

\* the end of the slice a[start:stop] on an axis of length size, 0 <= start <= size
SliceStop(stop, size) == IF stop < 0 THEN PyMaxInt(0, stop + size) ELSE PyMinInt(stop, size)

\* image.shape[1] of a one-dimensional array: IndexError
CropRaises(cfg, img) == cfg.crop.present /\ img.kind = "one_dim"

\* cropped = image[y:y+height, x:x+width]
crop_image(cfg, img) ==
    IF ~cfg.crop.present
    THEN img
    ELSE LET x == CropStart(cfg.crop.x, img.w)
             y == CropStart(cfg.crop.y, img.h)
             width == CropExtent(cfg.crop.width, x, img.w)
             height == CropExtent(cfg.crop.height, y, img.h)
         IN  [img EXCEPT !.ox = @ + x, !.oy = @ + y,
                         !.w = PyMaxInt(0, SliceStop(x + width, img.w) - x),
                         !.h = PyMaxInt(0, SliceStop(y + height, img.h) - y)]


----------------------------------------------------------------------------
(* _measure_circle_edge_strength                                           *)

\* num_samples = max(16, int(2 * math.pi * radius)), 2 * pi = 6.283185...
NumSamples(radius) == PyMaxInt(16, (6283185 * radius) \div 10^6)

\* inner_offset = outer_offset = max(3, radius // 10)
RingOffset(radius) == PyMaxInt(3, radius \div 10)

\* the three sample points of perimeter sample i, or <<>> when one of them
\* is outside the image
RingSample(img, cx, cy, radius, i) ==
    LET n == NumSamples(radius)
        cos_a == CosCircle(n, i)
        sin_a == SinCircle(n, i)
        off == RingOffset(radius)
        x_inner == PyInt(cx, radius - off, cos_a)
        y_inner == PyInt(cy, radius - off, sin_a)
        x_edge == PyInt(cx, radius, cos_a)
        y_edge == PyInt(cy, radius, sin_a)
        x_outer == PyInt(cx, radius + off, cos_a)
        y_outer == PyInt(cy, radius + off, sin_a)
    IN  IF InBounds(img, x_inner, y_inner) /\ InBounds(img, x_edge, y_edge)
           /\ InBounds(img, x_outer, y_outer)
        THEN <<Pixel(img, x_inner, y_inner), Pixel(img, x_edge, y_edge),
               Pixel(img, x_outer, y_outer)>>
        ELSE <<>>

\* the sum of one ring (1 inner, 2 edge, 3 outer) over the valid samples
RingSum(samples, ring) ==
    SeqSum([i \in 1..Len(samples) |-> IF samples[i] # <<>> THEN samples[i][ring] ELSE 0])

\* a stand-in without the clamp to 0.0
EdgeStrengthSigned(samples, valid_samples, inner_sum, edge_sum, outer_sum) ==
    IF 4 * valid_samples < 3 * Len(samples) \/ valid_samples = 0
    THEN Rat(0, 1)
    ELSE Rat((inner_sum - outer_sum) + (inner_sum - edge_sum), valid_samples)

\* the score from the samples, as an exact fraction:
\* max(0.0, (avg_inner - avg_outer) + (avg_inner - avg_edge)), and 0.0 when
\* valid_samples < num_samples * 0.75
EdgeStrength(samples, valid_samples, inner_sum, edge_sum, outer_sum) ==
    IF 4 * valid_samples < 3 * Len(samples) \/ valid_samples = 0
    THEN Rat(0, 1)
    ELSE Rat(PyMaxInt(0, (inner_sum - outer_sum) + (inner_sum - edge_sum)), valid_samples)

SampleScore(samples) ==
    EdgeStrength(samples, Cardinality({i \in 1..Len(samples) : samples[i] # <<>>}),
                 RingSum(samples, 1), RingSum(samples, 2), RingSum(samples, 3))

_measure_circle_edge_strength(img, cx, cy, radius) ==
    SampleScore([i \in 1..NumSamples(radius) |-> RingSample(img, cx, cy, radius, i - 1)])

----------------------------------------------------------------------------
(* _detect_gauge_center                                                    *)

\* int(size * 0.25) and int(min_dim * 0.45)
Quarter(size) == size \div 4

MinRadius(img) == Quarter(PyMinInt(img.w, img.h))

MaxRadius(img) == (PyMinInt(img.w, img.h) * 45) \div 100

CenterStep(img) == PyMaxInt(2, PyMinInt(Quarter(img.w), Quarter(img.h)) \div 10)

RadiusStep(img) == PyMaxInt(2, (MaxRadius(img) - MinRadius(img)) \div 10)

\* the cy (cx) values the grid search visits: the range around the initial
\* guess, without the values outside the image
CenterValues(size, step) ==
    SelectSeq(PyRange(size \div 2 - Quarter(size), size \div 2 + Quarter(size) + 1, step),
              LAMBDA v : 0 <= v /\ v < size)

\* the (cx, cy, radius) triples in scan order: cy, then cx, then radius
TriplesOf(cys, cxs, radii) ==
    [k \in 1..(Len(cys) * Len(cxs) * Len(radii)) |->
        [cx |-> cxs[(((k - 1) \div Len(radii)) % Len(cxs)) + 1],
         cy |-> cys[((k - 1) \div (Len(radii) * Len(cxs))) + 1],
         radius |-> radii[((k - 1) % Len(radii)) + 1]]]

ScanTriples(img) ==
    TriplesOf(CenterValues(img.h, CenterStep(img)), CenterValues(img.w, CenterStep(img)),
              PyRange(MinRadius(img), MaxRadius(img) + 1, RadiusStep(img)))

\* every scanned triple with its score
ScoredTriples(img, triples) ==
    [k \in 1..Len(triples) |->
        [cx |-> triples[k].cx, cy |-> triples[k].cy, radius |-> triples[k].radius,
         score |-> _measure_circle_edge_strength(img, triples[k].cx, triples[k].cy,
                                                 triples[k].radius)]]

Scored(img) == ScoredTriples(img, ScanTriples(img))

\* candidates: the triples with score > 0, in scan order
Candidates(scored) == SelectSeq(scored, LAMBDA c : c.score.num > 0)

\* a stand-in for a loop that compares with >=: the last triple of the
\* greatest score
BestIndexLast(scored) ==
    CHOOSE k \in 1..Len(scored) :
        /\ \A j \in 1..Len(scored) : RatLeq(scored[j].score, scored[k].score)
        /\ \A j \in (k + 1)..Len(scored) : RatLess(scored[j].score, scored[k].score)

\* if score > best_score: the running best of the scan loop is replaced only
\* by a strictly greater score, so the loop ends with the first triple of
\* the greatest score
BestIndex(scored) ==
    CHOOSE k \in 1..Len(scored) :
        /\ \A j \in 1..Len(scored) : RatLeq(scored[j].score, scored[k].score)
        /\ \A j \in 1..(k - 1) : RatLess(scored[j].score, scored[k].score)

\* best_center, best_radius and best_score after the scan, from their
\* initial values
BestCandidate(scored, initial) ==
    IF Candidates(scored) = <<>> THEN initial ELSE scored[BestIndex(scored)]

\* return (final_cx, final_cy, best_radius), with final_cx, final_cy =
\* best_center: the module global USE_WEIGHTED_CENTER is False
BestReturn(best) == <<best.cx, best.cy, best.radius>>

\* if not candidates: return (initial_cx, initial_cy)
NoCandidateReturn(img) == <<img.w \div 2, img.h \div 2>>

\* best_center = (initial_cx, initial_cy), best_radius = min_radius,
\* best_score = 0 before the scan
InitialBest(img) ==
    [cx |-> img.w \div 2, cy |-> img.h \div 2, radius |-> MinRadius(img), score |-> Rat(0, 1)]

\* the locals before any search
NoScan ==
    [best |-> [cx |-> 0, cy |-> 0, radius |-> 0, score |-> Rat(0, 1)], top |-> <<>>,
     candidates |-> <<>>]

\* candidates.sort(key=score, reverse=True) is stable: candidate j comes
\* before candidate i when its score is greater, or equal and it was
\* appended first
SortsBefore(cands, j, i) ==
    \/ RatLess(cands[i].score, cands[j].score)
    \/ RatEq(cands[i].score, cands[j].score) /\ j < i

\* num_top_candidates = max(5, len(candidates) // 5)
NumTopCandidates(cands) == PyMaxInt(5, Len(cands) \div 5)

\* top_candidates = candidates[:num_top_candidates] of the sorted list
TopCandidates(cands) ==
    LET top == {i \in 1..Len(cands) :
                   Cardinality({j \in 1..Len(cands) : SortsBefore(cands, j, i)})
                       < NumTopCandidates(cands)}
    IN  [k \in 1..Cardinality(top) |->
            cands[CHOOSE i \in top :
                      Cardinality({j \in top : SortsBefore(cands, j, i)}) = k - 1]]

\* The weights are floats; they are carried in thousandths, rounded down.
WeightScale == 1000

Weight(score) == (score.num * WeightScale) \div score.den

\* total_weight = sum(c['score'] for c in top_candidates)
TotalWeight(top) == SeqSum([i \in 1..Len(top) |-> Weight(top[i].score)])

\* sum(c['cx'] * c['score'] for c in top_candidates), axis = "cx" or "cy"
WeightedSum(top, axis) == SeqSum([i \in 1..Len(top) |-> top[i][axis] * Weight(top[i].score)])

\* what rounding the weights down can change in 2 * (sum - k * total)
WeightSlack(top, axis) == 4 * SeqSum([i \in 1..Len(top) |-> top[i][axis] + 1])

\* int(round(sum / total_weight)): the nearest integer; where the quotient
\* is within the rounding of the weights of a half, either neighbour
RoundedQuotients(sum, total, slack) ==
    {k \in (sum \div total - 1)..(sum \div total + 2) :
        LET d == 2 * (sum - k * total)
        IN  (IF d < 0 THEN -d ELSE d) <= total + slack}

\* a stand-in for the weighted branch that also averages the radius
WeightedReturnsMeanRadius(best, top) ==
    {<<x, y, r>> :
        x \in RoundedQuotients(WeightedSum(top, "cx"), TotalWeight(top), WeightSlack(top, "cx")),
        y \in RoundedQuotients(WeightedSum(top, "cy"), TotalWeight(top), WeightSlack(top, "cy")),
        r \in RoundedQuotients(WeightedSum(top, "radius"), TotalWeight(top),
                               WeightSlack(top, "radius"))}

\* final_cx = int(round(weighted_cx)), final_cy = int(round(weighted_cy));
\* return (final_cx, final_cy, best_radius)
WeightedReturns(best, top) ==
    {<<x, y, best.radius>> :
        x \in RoundedQuotients(WeightedSum(top, "cx"), TotalWeight(top), WeightSlack(top, "cx")),
        y \in RoundedQuotients(WeightedSum(top, "cy"), TotalWeight(top), WeightSlack(top, "cy"))}

\* the module global the weighted branch is guarded by
USE_WEIGHTED_CENTER == FALSE

\* what the search can return with the global set to `weighted`: the image
\* centre alone without candidates, else the weighted centre (when
\* total_weight > 0) or the best centre, with best_radius
DetectReturns(weighted, img, best, top) ==
    IF top = <<>>
    THEN {NoCandidateReturn(img)}
    ELSE IF weighted /\ TotalWeight(top) > 0
         THEN WeightedReturns(best, top)
         ELSE {BestReturn(best)}

\* the return value, from the scored triples of the scan
CenterFrom(img, scored) ==
    CHOOSE g \in DetectReturns(USE_WEIGHTED_CENTER, img, BestCandidate(scored, InitialBest(img)),
                               TopCandidates(Candidates(scored))) : TRUE

_detect_gauge_center(img) == CenterFrom(img, Scored(img))

----------------------------------------------------------------------------
(* _find_needle_angle_simple and _refine_needle_angle                      *)

\* the sample points (int(cx + r cos), int(cy - r sin)) of one ray
RayPoints(cx, cy, angle, radii) ==
    [i \in 1..Len(radii) |->
        <<PyInt(cx, radii[i], CosDeg(angle)), PyInt(cy, -radii[i], SinDeg(angle))>>]

\* score and valid_points of one ray: the brightness summed over the
\* in-bounds points
RaySum(img, angle, pts) ==
    [angle |-> angle,
     score |-> SeqSum([i \in 1..Len(pts) |->
                    IF InBounds(img, pts[i][1], pts[i][2])
                    THEN Pixel(img, pts[i][1], pts[i][2]) ELSE 0]),
     valid_points |-> Cardinality({i \in 1..Len(pts) : InBounds(img, pts[i][1], pts[i][2])})]

RayScore(img, cx, cy, angle, radii) == RaySum(img, angle, RayPoints(cx, cy, angle, radii))

\* avg_score < best_score, for two rays with valid points
Darker(s, best) == s.score * best.valid_points < best.score * s.valid_points

\* a stand-in for a loop that compares with <=: the last angle of the
\* smallest average
DarkestIndexLast(scores) ==
    CHOOSE k \in 1..Len(scores) :
        /\ scores[k].valid_points > 0
        /\ \A j \in 1..Len(scores) :
              scores[j].valid_points > 0 => ~Darker(scores[j], scores[k])
        /\ \A j \in (k + 1)..Len(scores) :
              scores[j].valid_points > 0 => Darker(scores[k], scores[j])

\* if valid_points > 0 and avg_score < best_score: an angle replaces the best
\* only with a strictly smaller average, so the loop ends with the first
\* angle of the smallest average among those with valid points
DarkestIndex(scores) ==
    CHOOSE k \in 1..Len(scores) :
        /\ scores[k].valid_points > 0
        /\ \A j \in 1..Len(scores) :
              scores[j].valid_points > 0 => ~Darker(scores[j], scores[k])
        /\ \A j \in 1..(k - 1) :
              scores[j].valid_points > 0 => Darker(scores[k], scores[j])

\* the best of the scan loop, from its initial value (valid_points = 0
\* stands for best_score = float('inf'))
DarkestOf(scores, initial) ==
    IF \A k \in 1..Len(scores) : scores[k].valid_points = 0
    THEN initial
    ELSE scores[DarkestIndex(scores)]

DarkestAngle(img, cx, cy, angles, radii, initial) ==
    DarkestOf([k \in 1..Len(angles) |-> RayScore(img, cx, cy, angles[k], radii)], initial)

\* a stand-in that scans 2 degrees to either side in steps of 1 degree
RefineTwoDegrees(img, cx, cy, coarse_angle, radius) ==
    DarkestAngle(img, cx, cy, [i \in 1..5 |-> coarse_angle + Deg(i - 3)], PyRange(8, radius, 2),
                 [angle |-> coarse_angle, score |-> 0, valid_points |-> 0]).angle

RefineWholeDegrees(img, cx, cy, coarse_angle, radius) ==
    DarkestAngle(img, cx, cy, [i \in 1..17 |-> coarse_angle + Deg(i - 9)], PyRange(8, radius, 2),
                 [angle |-> coarse_angle, score |-> 0, valid_points |-> 0]).angle

\* for angle_offset in range(-8, 9): angle_deg = coarse_angle + angle_offset * 0.5;
\* for r in range(8, radius, 2)
_refine_needle_angle(img, cx, cy, coarse_angle, radius) ==
    DarkestAngle(img, cx, cy, [i \in 1..17 |-> coarse_angle + (i - 9)], PyRange(8, radius, 2),
                 [angle |-> coarse_angle, score |-> 0, valid_points |-> 0]).angle

\* needle_end_radius = int(gauge_radius * 0.75)
NeedleEndRadius(gauge_radius) == (gauge_radius * 3) \div 4

\* needle_start_radius = max(5, needle_end_radius // 8)
NeedleStartRadius(gauge_radius) == PyMaxInt(5, NeedleEndRadius(gauge_radius) \div 8)

\* for angle_deg in range(0, 360, coarse_step), coarse_step = 5
CoarseAngles == [i \in 1..72 |-> Deg(5 * (i - 1))]

CoarseBest(img, cx, cy, gauge_radius) ==
    DarkestAngle(img, cx, cy, CoarseAngles,
                 PyRange(NeedleStartRadius(gauge_radius), NeedleEndRadius(gauge_radius), 1),
                 [angle |-> 0, score |-> 0, valid_points |-> 0])

\* if best_score > 200: the needle "appears too bright"; a warning is logged
TooBright(best) == best.score > 200 * best.valid_points

\* a stand-in that treats a too bright needle as no needle
FindNeedleRejectsBright(img, cx, cy, gauge_radius) ==
    LET best == CoarseBest(img, cx, cy, gauge_radius)
    IN  IF best.valid_points > 0 /\ ~TooBright(best)
        THEN <<_refine_needle_angle(img, cx, cy, best.angle, NeedleEndRadius(gauge_radius))>>
        ELSE None

FindNeedleNeverNone(img, cx, cy, gauge_radius) ==
    <<_refine_needle_angle(img, cx, cy, CoarseBest(img, cx, cy, gauge_radius).angle,
                           NeedleEndRadius(gauge_radius))>>

\* best_angle is None exactly when no coarse angle had a valid point
_find_needle_angle_simple(img, cx, cy, gauge_radius) ==
    LET best == CoarseBest(img, cx, cy, gauge_radius)
    IN  IF best.valid_points > 0
        THEN <<_refine_needle_angle(img, cx, cy, best.angle, NeedleEndRadius(gauge_radius))>>
        ELSE None

----------------------------------------------------------------------------
(* Inputs                                                                  *)

\* width and height of the images handed to process_image
ImageSize == 24

\* width and height of the larger images, whose dial is wide enough for the
\* refinement scan to have sample points
LargeSize == 36

\* radius of the dial face of the larger images
LargeDialRadii == {13}

\* brightness of the constant images
Levels == {0, 128}

\* radius of the dial face, in pixels
DialRadii == {5, 7, 8}

\* direction of the needle, <<0, 0>> for a dial without needle
NeedleDirections == {<<0, 0>>, <<1, 0>>, <<0, -1>>, <<-1, 0>>}

\* constant images, dials in the middle of a dark image, an array without
\* samples and a one-dimensional array
Images ==
    {Flat(ImageSize, ImageSize, l) : l \in Levels}
        \cup {Gray(ImageSize, ImageSize, 0, ImageSize \div 2, ImageSize \div 2, r, d[1], d[2]) :
                r \in DialRadii, d \in NeedleDirections}
        \cup {Gray(LargeSize, LargeSize, 0, LargeSize \div 2, LargeSize \div 2, r, d[1], d[2]) :
                r \in LargeDialRadii, d \in {<<0, 0>>, <<1, 0>>, <<-1, 0>>}}
        \cup {Empty, OneDim(ImageSize, 128)}

\* min_angle_hours and max_angle_hours are validated to lie in 0..12
MaxHours == 12

\* crop rectangles: inside the image, reaching over its border, outside it
Crops == {Crop(4, 4, 16, 16), Crop(-5, 0, 100, 100), Crop(ImageSize + 6, ImageSize + 6, 10, 10)}

Calibrations ==
    {Calibration(7, 5, 0, 6), Calibration(2, 10, -20, 50),
     Without(Calibration(7, 5, 0, 6), {"min_value"}), Without(Calibration(7, 5, 0, 6), CalKeys)}

Configs ==
    {[cal |-> c, crop |-> NoCrop] : c \in Calibrations}
        \cup {[cal |-> Calibration(7, 5, 0, 6), crop |-> k] : k \in Crops}

PROCESSOR_ANALOG_GAUGE == "analog_gauge_reader"

ProcessorTypes == {PROCESSOR_ANALOG_GAUGE, "digital_display"}

----------------------------------------------------------------------------
(* The processor and one invocation of process_image                       *)

\* the locals of an invocation of process_image that has not started
NotStarted ==
    [input |-> Empty, image |-> Empty, pc |-> "idle", stages |-> <<>>, n_candidates |-> 0,
     scan |-> NoScan, geometry |-> <<>>, needle_angle |-> None, caught |-> "",
     result |-> Pending]

\* ImageSensorCoordinator after __init__: no data yet (fetched is FALSE while
\* data is None), last_update_success True, no sensor entity added yet
NewCoordinator ==
    [fetched |-> FALSE, data |-> <<>>, last_update_success |-> TRUE, entities |-> FALSE]

\* no call of _async_update_data is running and none has returned. got is
\* what get_image gave the current (or last) call, calls what each
\* processor.process_image did in it, outcome how the call ended.
NoUpdate ==
    [pc |-> "idle", results |-> <<>>, returned |-> <<>>, got |-> "", calls |-> <<>>,
     outcome |-> ""]

(***************************************************************************)
(* The config entries of the integration (__init__.py, services.py,       *)
(* config_flow.py).  A Python dict is a function from its keys; a Python   *)
(* str is the sequence of its characters.                                  *)
(***************************************************************************)
SOURCE_FILE == "file"

SOURCE_CAMERA == "camera"

\* the four services async_setup_services registers
Services == {"process_image", "enable_debug_logging", "disable_debug_logging", "generate_preview"}

\* {}
EmptyDict == [k \in {} |-> ""]

\* d[key] = value
DictSet(d, key, value) == [k \in DOMAIN d \cup {key} |-> IF k = key THEN value ELSE d[k]]

\* d.pop(key)
DictPop(d, key) == [k \in DOMAIN d \ {key} |-> d[k]]

Whitespace == {" ", "\t"}

RECURSIVE LStrip(_)
LStrip(s) == IF s # <<>> /\ Head(s) \in Whitespace THEN LStrip(Tail(s)) ELSE s

RECURSIVE RStrip(_)
RStrip(s) ==
    IF s # <<>> /\ s[Len(s)] \in Whitespace THEN RStrip(SubSeq(s, 1, Len(s) - 1)) ELSE s

\* a string taken as it is
Unstripped(s) == s

\* str.strip()
Strip(s) == RStrip(LStrip(s))

\* no operation on a config entry has run yet. last is the operation that ran
\* last: its entry, whether the platforms unloaded, what was stored and
\* registered before it, the form data and the flow's result.
NoOperation ==
    [op |-> "", entry |-> "", unload_ok |-> TRUE, stored_before |-> {}, services_before |-> {},
     user_input |-> EmptyDict, type |-> "", errors |-> EmptyDict, entry_kept |-> TRUE]

\* Home Assistant before the integration has a config entry
NoHass ==
    [entries |-> EmptyDict, data |-> EmptyDict, services |-> {}, listeners |-> {},
     pending |-> {}, last |-> NoOperation]

\* async_setup_services: hass.services.async_register of each service
async_setup_services(h) == [h EXCEPT !.services = @ \cup Services]

\* async_unload_services: hass.services.async_remove of each service
async_unload_services(h) == [h EXCEPT !.services = @ \ Services]

\* async_setup_entry; forwarded is whether async_forward_entry_setups returned
\* (it raises when the sensor platform cannot be set up, and the lines after
\* it do not run)
async_setup_entry(h, e, forwarded) ==
    LET stored == [h EXCEPT !.data = DictSet(@, e, h.entries[e].data)]
    IN  IF forwarded
        THEN [async_setup_services(stored) EXCEPT !.listeners = @ \cup {e},
                                                  !.entries[e].state = "loaded"]
        ELSE [stored EXCEPT !.entries[e].state = "setup_error"]

\* an unload that removes the services whenever the platforms unloaded
UnloadRemovingServices(h, e, unload_ok) ==
    IF unload_ok THEN async_unload_services([h EXCEPT !.data = DictPop(@, e)]) ELSE h

\* async_unload_entry, which returns unload_ok
async_unload_entry(h, e, unload_ok) ==
    IF unload_ok
    THEN LET popped == [h EXCEPT !.data = DictPop(@, e)]
         IN  IF DOMAIN popped.data = {} THEN async_unload_services(popped) ELSE popped
    ELSE h

\* Home Assistant unloading a loaded entry: the callbacks of async_on_unload
\* (the removal of the update listener) run when async_unload_entry returned
\* True, and the entry cannot be used again when it returned False
Unloaded(h, e, unload_ok) ==
    IF h.entries[e].state = "loaded"
    THEN [async_unload_entry(h, e, unload_ok)
            EXCEPT !.listeners = IF unload_ok THEN @ \ {e} ELSE @,
                   !.entries[e].state = IF unload_ok THEN "not_loaded" ELSE "failed_unload"]
    ELSE [h EXCEPT !.entries[e].state = "not_loaded"]

\* async_update_options, the update listener: hass.config_entries.async_reload
\* unloads the entry and sets it up again when the unload succeeded, and
\* raises for an entry whose unload failed before
async_update_options(h, e, unload_ok, forwarded) ==
    LET stored == [h EXCEPT !.data = DictSet(@, e, h.entries[e].data)]
    IN  IF stored.entries[e].state = "failed_unload"
        THEN stored
        ELSE IF stored.entries[e].state = "loaded" /\ ~unload_ok
             THEN Unloaded(stored, e, FALSE)
             ELSE async_setup_entry(Unloaded(stored, e, TRUE), e, forwarded)

\* errors of the init step
OptionsErrors(user_input) ==
    IF user_input.image_source = SOURCE_FILE
    THEN IF "image_path" \notin DOMAIN user_input \/ Strip(user_input.image_path) = <<>>
         THEN DictSet(EmptyDict, "image_path", "required")
         ELSE EmptyDict
    ELSE IF "camera_entity" \notin DOMAIN user_input \/ Strip(user_input.camera_entity) = <<>>
         THEN DictSet(EmptyDict, "camera_entity", "required")
         ELSE EmptyDict

\* new_data of the init step
NewData(data, user_input) ==
    LET common ==
            [name |-> data.name,
             image_source |-> user_input.image_source,
             crop_config |-> [crop_x |-> user_input.crop_x, crop_y |-> user_input.crop_y,
                              crop_width |-> user_input.crop_width,
                              crop_height |-> user_input.crop_height],
             processors |-> <<[type |-> PROCESSOR_ANALOG_GAUGE,
                               config |-> [units |-> user_input.units]]>>,
             scan_interval |-> user_input.scan_interval]
    IN  IF user_input.image_source = SOURCE_FILE
        THEN LET with_path == DictSet(common, "image_path", user_input.image_path)
             IN  IF "camera_entity" \in DOMAIN data
                 THEN DictSet(with_path, "camera_entity", data.camera_entity)
                 ELSE with_path
        ELSE LET with_camera == DictSet(common, "camera_entity", user_input.camera_entity)
             IN  IF "image_path" \in DOMAIN data
                 THEN DictSet(with_camera, "image_path", data.image_path)
                 ELSE with_camera

\* hass.config_entries.async_update_entry: the update listeners of the entry
\* are called when the data changed
async_update_entry(h, e, new_data) ==
    [h EXCEPT !.entries[e].data = new_data,
              !.pending = IF new_data # h.entries[e].data /\ e \in h.listeners
                          THEN @ \cup {e} ELSE @]

\* OptionsFlowHandler.async_step_init; submitted is whether user_input is not
\* None
async_step_init(h, e, user_input, submitted) ==
    LET errors == OptionsErrors(user_input)
    IN  IF ~submitted
        THEN [h EXCEPT !.last.type = "form", !.last.errors = EmptyDict]
        ELSE IF errors # EmptyDict
             THEN [h EXCEPT !.last.type = "form", !.last.errors = errors]
             ELSE [async_update_entry(h, e, NewData(h.entries[e].data, user_input))
                     EXCEPT !.last.type = "create_entry", !.last.errors = EmptyDict]

Init ==
    /\ constructed = "no"
    /\ config \in Configs
    /\ input = Empty
    /\ image = Empty
    /\ pc = "new"
    /\ stages = <<>>
    /\ n_candidates = 0
    /\ scan = NoScan
    /\ geometry = <<>>
    /\ needle_angle = None
    /\ caught = ""
    /\ result = Pending
    /\ suspended = NotStarted
    /\ coordinator = NewCoordinator
    /\ update = NoUpdate
    /\ hass = NoHass

\* create_simple_processor(processor_type, config): __init__ stores the
\* configuration; an unknown processor type raises ValueError
create_simple_processor(processor_type) ==
    IF processor_type = PROCESSOR_ANALOG_GAUGE THEN "processor" ELSE "ValueError"

Construct ==
    /\ pc = "new"
    /\ \E processor_type \in ProcessorTypes :
          /\ constructed' = create_simple_processor(processor_type)
          /\ pc' = IF constructed' = "processor" THEN "idle" ELSE "rejected"
    /\ UNCHANGED <<config, input, image, stages, n_candidates, scan, geometry, needle_angle, caught,
                   result, suspended, coordinator, update>>
    /\ UNCHANGED hass

\* a stand-in that keeps the needle angle of the earlier invocation, as a
\* field of the processor would be kept
ProcessImageKeepsAngle(images) ==
    /\ pc \in {"idle", "done"}
    /\ \E img \in images : input' = img /\ image' = img
    /\ pc' = "crop"
    /\ stages' = <<>>
    /\ n_candidates' = 0
    /\ scan' = NoScan
    /\ geometry' = <<>>
    /\ caught' = ""
    /\ result' = Pending
    /\ UNCHANGED <<constructed, config, needle_angle, suspended, coordinator, update>>
    /\ UNCHANGED hass

\* process_image(image) is called with one of the images: the invocation
\* starts with fresh locals
ProcessImageFrom(images) ==
    /\ pc \in {"idle", "done"}
    /\ \E img \in images : input' = img /\ image' = img
    /\ pc' = "crop"
    /\ stages' = <<>>
    /\ n_candidates' = 0
    /\ scan' = NoScan
    /\ geometry' = <<>>
    /\ needle_angle' = None
    /\ caught' = ""
    /\ result' = Pending
    /\ UNCHANGED <<constructed, config, suspended, coordinator, update>>
    /\ UNCHANGED hass

ProcessImage == ProcessImageFrom(Images)

\* _read_analog_gauge_simple: except Exception -> return None
ReadGaugeExcept(outcome) == IF outcome.kind = "raise" THEN ReturnNone ELSE outcome

ProcessImageNoExcept(outcome) == outcome

\* process_image: except Exception -> return None
ProcessImageExcept(outcome) == IF outcome.kind = "raise" THEN ReturnNone ELSE outcome

\* the invocation ends with this outcome of _read_analog_gauge_simple's body
Finish(outcome) ==
    /\ result' = ProcessImageExcept(ReadGaugeExcept(outcome))
    /\ caught' = outcome.exc
    /\ pc' = "done"

\* a stand-in that applies the configured crop once and then clears it in
\* self.config
CropImageOnce ==
    /\ pc = "crop"
    /\ stages' = Append(stages, "crop")
    /\ IF CropRaises(config, image)
       THEN /\ result' = ProcessImageExcept(Raise("IndexError"))
            /\ caught' = "IndexError"
            /\ pc' = "done"
            /\ UNCHANGED image
       ELSE /\ image' = crop_image(config, image)
            /\ pc' = "convert"
            /\ UNCHANGED <<caught, result>>
    /\ config' = [config EXCEPT !.crop = NoCrop]
    /\ UNCHANGED <<constructed, n_candidates, scan, geometry, needle_angle>>
    /\ UNCHANGED <<input, suspended, coordinator, update>>
    /\ UNCHANGED hass

\* image = self.crop_image(image)
CropImage ==
    /\ pc = "crop"
    /\ stages' = Append(stages, "crop")
    /\ IF CropRaises(config, image)
       THEN /\ result' = ProcessImageExcept(Raise("IndexError"))
            /\ caught' = "IndexError"
            /\ pc' = "done"
            /\ UNCHANGED image
       ELSE /\ image' = crop_image(config, image)
            /\ pc' = "convert"
            /\ UNCHANGED <<caught, result>>
    /\ UNCHANGED <<constructed, config, n_candidates, scan, geometry, needle_angle>>
    /\ UNCHANGED <<input, suspended, coordinator, update>>
    /\ UNCHANGED hass

\* Image.fromarray(image_array).convert('L'), np.array(enhanced), gray_array.min():
\* an array without samples raises; a one-dimensional array of n samples is
\* refused or read as an image of width 1 and height n, as the library decides
ConvertGray ==
    /\ pc = "convert"
    /\ stages' = Append(stages, "convert")
    /\ \/ /\ image.kind = "gray" /\ image.w > 0 /\ image.h > 0
          /\ pc' = "center"
          /\ UNCHANGED <<image, caught, result>>
       \/ /\ image.kind = "one_dim"
          /\ image' = [image EXCEPT !.kind = "gray"]
          /\ pc' = "center"
          /\ UNCHANGED <<caught, result>>
       \/ /\ image.kind # "gray" \/ image.w = 0 \/ image.h = 0
          /\ Finish(Raise("ValueError"))
          /\ UNCHANGED image
    /\ UNCHANGED <<constructed, config, n_candidates, scan, geometry, needle_angle>>
    /\ UNCHANGED <<input, suspended, coordinator, update>>
    /\ UNCHANGED hass

\* center_x, center_y, gauge_radius = self._detect_gauge_center(gray_array)
DetectGaugeCenter ==
    /\ pc = "center"
    /\ stages' = Append(stages, "center")
    /\ \E scored \in {Scored(image)} :
          /\ n_candidates' = Len(Candidates(scored))
          /\ scan' = [best |-> BestCandidate(scored, InitialBest(image)),
                      top |-> TopCandidates(Candidates(scored)),
                      candidates |-> Candidates(scored)]
    /\ geometry' \in DetectReturns(USE_WEIGHTED_CENTER, image, scan'.best, scan'.top)
    /\ IF Len(geometry') = 3
       THEN pc' = "needle" /\ UNCHANGED <<caught, result>>
       ELSE Finish(Raise("ValueError"))
    /\ UNCHANGED <<constructed, config, image, needle_angle>>
    /\ UNCHANGED <<input, suspended, coordinator, update>>
    /\ UNCHANGED hass

\* needle_angle = self._find_needle_angle_simple(gray_array, center_x, center_y, gauge_radius)
FindNeedleAngle ==
    /\ pc = "needle"
    /\ stages' = Append(stages, "needle")
    /\ needle_angle' = _find_needle_angle_simple(image, geometry[1], geometry[2], geometry[3])
    /\ IF needle_angle' = None
       THEN Finish(ReturnNone)
       ELSE pc' = "map" /\ UNCHANGED <<caught, result>>
    /\ UNCHANGED <<constructed, config, image, n_candidates, scan, geometry>>
    /\ UNCHANGED <<input, suspended, coordinator, update>>
    /\ UNCHANGED hass

\* value = self._angle_to_value(needle_angle); return value
AngleToValue ==
    /\ pc = "map"
    /\ stages' = Append(stages, "map")
    /\ Finish(_angle_to_value(config.cal, needle_angle[1]))
    /\ UNCHANGED <<constructed, config, image, n_candidates, scan, geometry, needle_angle>>
    /\ UNCHANGED <<input, suspended, coordinator, update>>
    /\ UNCHANGED hass

Next ==
    \/ Construct
    \/ ProcessImage
    \/ CropImage
    \/ ConvertGray
    \/ DetectGaugeCenter
    \/ FindNeedleAngle
    \/ AngleToValue

Spec == Init /\ [][Next]_vars

\* the stage has run in the current invocation of process_image
Ran(stage) == \E i \in 1..Len(stages) : stages[i] = stage

----------------------------------------------------------------------------
(* _angle_to_value on its own: every calibration and needle angle          *)

\* the needle angles handed to _angle_to_value reach from -MaxNegDeg to
\* MaxAngleDeg degrees
MaxNegDeg == 4

MaxAngleDeg == 364

\* multiples of 5 degrees and their neighbours half a degree away
MapAngles ==
    {a \in (-Deg(MaxNegDeg))..Deg(MaxAngleDeg) : a % Deg(5) \in {0, 1, Deg(5) - 1}}

\* <<min_value, max_value>>: ascending, descending and equal
MapValues == {<<0, 6>>, <<-20, 50>>, <<6, 0>>, <<3, 3>>, <<0, 100>>, <<0, 1>>}

MapCalibrations ==
    {Calibration(a, b, v[1], v[2]) : a \in 0..MaxHours, b \in 0..MaxHours, v \in MapValues}

\* _read_analog_gauge_simple has found a needle angle and is about to map it
InitMap ==
    /\ constructed = "processor"
    /\ config \in {[cal |-> c, crop |-> NoCrop] : c \in MapCalibrations}
    /\ image = Gray(ImageSize, ImageSize, 0, ImageSize \div 2, ImageSize \div 2, 8, 1, 0)
    /\ pc = "map"
    /\ stages = <<"crop", "convert", "center", "needle">>
    /\ n_candidates = 1
    /\ scan = [best |-> [cx |-> ImageSize \div 2, cy |-> ImageSize \div 2, radius |-> 8,
                          score |-> Rat(1, 1)],
               top |-> <<[cx |-> ImageSize \div 2, cy |-> ImageSize \div 2, radius |-> 8,
                          score |-> Rat(1, 1)]>>,
               candidates |-> <<[cx |-> ImageSize \div 2, cy |-> ImageSize \div 2,
                                 radius |-> 8, score |-> Rat(1, 1)]>>]
    /\ geometry = <<ImageSize \div 2, ImageSize \div 2, 8>>
    /\ needle_angle \in {<<a>> : a \in MapAngles}
    /\ caught = ""
    /\ result = Pending
    /\ input = image
    /\ suspended = NotStarted
    /\ coordinator = NewCoordinator
    /\ update = NoUpdate
    /\ hass = NoHass

NextMap == AngleToValue

SpecMap == InitMap /\ [][NextMap]_vars

----------------------------------------------------------------------------
(* Properties of the centre fallback (Spec)                                *)

\* C1: on an image where the centre search finds no candidate with a
\* positive score, _detect_gauge_center returns the triple
\* (width // 2, height // 2, min(width, height) // 4).
C1_FallbackIsTriple ==
    (Ran("center") /\ n_candidates = 0) =>
        geometry = <<image.w \div 2, image.h \div 2, PyMinInt(image.w, image.h) \div 4>>

\* C2: when the centre search finds no candidate, process_image goes on to
\* needle detection with the fallback geometry and no exception is raised
\* on the way.
C2_ContinuesToNeedle ==
    (pc = "done" /\ Ran("center") /\ n_candidates = 0) => (Ran("needle") /\ caught = "")

----------------------------------------------------------------------------
(* Properties of _angle_to_value (SpecMap)                                 *)

\* the needle's clock angle, (90 - angle) mod 360 degrees, is hours * 30
ClockIsAt(hours) == (Deg(90) - needle_angle[1]) % Deg(360) = hours * Deg(30)

\* process_image has returned the number v
Returned(v) == result.kind = "value" /\ result.num = v * result.den

\* the angular span of the calibration is not zero
SpanNonZero ==
    /\ config.cal["min_angle_hours"] # config.cal["max_angle_hours"]
    /\ ~(config.cal["min_angle_hours"] = 12 /\ config.cal["max_angle_hours"] = 0)

\* C3, as stated: for every calibration, with min_value and max_value in any
\* order, a needle whose clock angle is max_angle_hours * 30 maps to
\* max_value.
C3_MaxBoundaryAnyCalibration ==
    (pc = "done" /\ ClockIsAt(config.cal["max_angle_hours"])) =>
        Returned(config.cal["max_value"])

\* C3, amended: for every calibration with a non-zero angular span and
\* min_value <= max_value, a needle whose clock angle is
\* max_angle_hours * 30 maps to max_value.
C3_MaxBoundary ==
    (/\ pc = "done"
     /\ ClockIsAt(config.cal["max_angle_hours"])
     /\ SpanNonZero
     /\ config.cal["min_value"] <= config.cal["max_value"]) =>
        Returned(config.cal["max_value"])

C3_Witness ==
    /\ pc = "done"
    /\ ClockIsAt(config.cal["max_angle_hours"])
    /\ config.cal["min_angle_hours"] > config.cal["max_angle_hours"]
    /\ config.cal["min_value"] < config.cal["max_value"]
    /\ Returned(config.cal["max_value"])

\* C4: for every calibration, a needle whose clock angle is
\* min_angle_hours * 30 maps to min_value.
C4_MinBoundary ==
    (pc = "done" /\ ClockIsAt(config.cal["min_angle_hours"])) =>
        Returned(config.cal["min_value"])

C4_Witness ==
    /\ pc = "done"
    /\ ClockIsAt(config.cal["min_angle_hours"])
    /\ SpanNonZero
    /\ config.cal["min_value"] # config.cal["max_value"]
    /\ Returned(config.cal["min_value"])

\* C5, as stated: for every calibration and angle the returned value v
\* satisfies min_value <= v <= max_value.
C5_WithinRangeAnyCalibration ==
    pc = "done" =>
        /\ result.kind = "value"
        /\ config.cal["min_value"] * result.den <= result.num
        /\ result.num <= config.cal["max_value"] * result.den

\* C5, amended: for every calibration with min_value <= max_value and every
\* angle, the returned value v satisfies min_value <= v <= max_value; a ratio
\* angle_normalized / total_range below 0 gives min_value and one above 1
\* gives max_value.
C5_WithinRange ==
    (pc = "done" /\ config.cal["min_value"] <= config.cal["max_value"]) =>
        /\ result.kind = "value"
        /\ config.cal["min_value"] * result.den <= result.num
        /\ result.num <= config.cal["max_value"] * result.den
        /\ (SpanNonZero /\ AngleNormalized(config.cal, needle_angle[1]) < 0) =>
              Returned(config.cal["min_value"])
        /\ (SpanNonZero /\ AngleNormalized(config.cal, needle_angle[1]) > TotalRange(config.cal)) =>
              Returned(config.cal["max_value"])

C5_Witness ==
    /\ pc = "done"
    /\ config.cal["min_value"] < config.cal["max_value"]
    /\ SpanNonZero
    /\ AngleNormalized(config.cal, needle_angle[1]) > TotalRange(config.cal)
    /\ Returned(config.cal["max_value"])

\* C6: with min_angle_hours = 7, max_angle_hours = 5, min_value = 0,
\* max_value = 6 and a needle at math angle 150 (clock angle 300),
\* angle_normalized is 90, total_range is 300 and the value is 1.8 = 9/5.
C6_WrapVector ==
    (pc = "done" /\ config.cal = Calibration(7, 5, 0, 6) /\ needle_angle = <<Deg(150)>>) =>
        /\ AngleNormalized(config.cal, needle_angle[1]) = Deg(90)
        /\ TotalRange(config.cal) = Deg(300)
        /\ result.kind = "value"
        /\ 5 * result.num = 9 * result.den

C6_Witness ==
    /\ pc = "done"
    /\ config.cal = Calibration(7, 5, 0, 6)
    /\ needle_angle = <<Deg(150)>>
    /\ ClockIsAt(10)
    /\ result.kind = "value"

\* C7: for every calibration with min_angle_hours = max_angle_hours and
\* every angle, the result is min_value and no ZeroDivisionError is raised.
C7_DegenerateSpan ==
    (pc = "done" /\ config.cal["min_angle_hours"] = config.cal["max_angle_hours"]) =>
        (Returned(config.cal["min_value"]) /\ caught = "")

C7_Witness ==
    /\ pc = "done"
    /\ config.cal["min_angle_hours"] = config.cal["max_angle_hours"]
    /\ config.cal["min_value"] # config.cal["max_value"]
    /\ ~ClockIsAt(config.cal["min_angle_hours"])
    /\ Returned(config.cal["min_value"])

----------------------------------------------------------------------------
(* Properties of process_image (Spec)                                      *)

\* C8: when the coarse scan has no angle with an in-bounds sample,
\* _find_needle_angle_simple returns None, _angle_to_value is not invoked
\* and process_image returns None; the mapping stage runs only after centre
\* detection has returned a geometry and needle detection an angle.
C8_NoNeedleNoMapping ==
    /\ (Ran("needle") /\ CoarseBest(image, geometry[1], geometry[2], geometry[3]).valid_points = 0) =>
          (needle_angle = None /\ ~Ran("map") /\ pc = "done" /\ result = ReturnNone)
    /\ (pc = "map" \/ Ran("map")) =>
          /\ Len(geometry) = 3
          /\ needle_angle # None
          /\ SubSeq(stages, 1, 4) = <<"crop", "convert", "center", "needle">>

C8_Witness ==
    /\ pc = "done"
    /\ Ran("needle")
    /\ CoarseBest(image, geometry[1], geometry[2], geometry[3]).valid_points = 0
    /\ result = ReturnNone

\* C9: for every image and configuration, process_image ends with a number
\* or None and propagates no exception.
C9_NeverPropagates ==
    pc = "done" => (result.kind \in {"value", "None"} /\ result.exc = "")

C9_Witness ==
    /\ pc = "done"
    /\ caught = "IndexError"
    /\ image.kind = "one_dim"
    /\ result = ReturnNone

\* C10, as stated: a processor is constructed only with a calibration
\* that has every field.
C10_RejectedAtConstruction ==
    constructed = "processor" => CalKeys \subseteq DOMAIN config.cal

\* C10, amended: construction accepts a calibration with a missing field
\* (it raises only for an unknown processor type); the missing field is met
\* in _angle_to_value, once per image in which a needle angle is found, as a
\* KeyError that is caught, and process_image returns None.
C10_MissingFieldPerImage ==
    /\ constructed = "ValueError" => pc = "rejected"
    /\ (pc = "done" /\ Ran("map") /\ ~(CalKeys \subseteq DOMAIN config.cal)) =>
          (caught = "KeyError" /\ result = ReturnNone)
    /\ (pc = "done" /\ caught = "KeyError") =>
          (constructed = "processor" /\ Ran("map") /\ ~(CalKeys \subseteq DOMAIN config.cal))

C10_Witness ==
    /\ pc = "done"
    /\ constructed = "processor"
    /\ "min_value" \notin DOMAIN config.cal
    /\ Ran("map")
    /\ caught = "KeyError"
    /\ result = ReturnNone

----------------------------------------------------------------------------
(* Properties of the detected angle and geometry (Spec)                    *)

\* C11, as stated: every needle angle _find_needle_angle_simple returns
\* lies in [0, 360).
C11_AngleInFullCircle ==
    needle_angle # None => (0 <= needle_angle[1] /\ needle_angle[1] < Deg(360))

\* C11, amended: every needle angle _find_needle_angle_simple returns lies
\* in [-4, 360): the coarse angle is in [0, 355] and refinement moves it by
\* at most 4 degrees, below 0 as well.
C11_AngleWithinRefinement ==
    needle_angle # None => (-Deg(4) <= needle_angle[1] /\ needle_angle[1] < Deg(360))

C11_Witness ==
    /\ Ran("needle")
    /\ needle_angle = <<-Deg(4)>>
    /\ PyRange(8, NeedleEndRadius(geometry[3]), 2) # <<>>

-----------------------------------------------------------------------------
(* Properties of the centre search (Spec)                                  *)

\* the tuple is a centre inside the image with a radius inside the
\* searched range of the image
GeometryInBounds(g, img) ==
    /\ Len(g) = 3
    /\ MinRadius(img) <= g[3] /\ g[3] <= MaxRadius(img)
    /\ 0 <= g[1] /\ g[1] < img.w
    /\ 0 <= g[2] /\ g[2] < img.h

\* C12: every geometry _detect_gauge_center returns, on every return path,
\* has minRadius <= radius <= maxRadius, 0 <= centerX < width and
\* 0 <= centerY < height.
C12_GeometryInBounds == Ran("center") => GeometryInBounds(geometry, image)

\* C16: the radius _detect_gauge_center returns is the radius of the single
\* highest-scoring candidate whether USE_WEIGHTED_CENTER is set or not: the
\* two modes differ in the centre at most.
C16_RadiusOfBestCandidate ==
    (Ran("center") /\ n_candidates > 0) =>
        /\ \A i \in 1..Len(scan.top) : RatLeq(scan.top[i].score, scan.best.score)
        /\ scan.top[1] = scan.best
        /\ geometry \in DetectReturns(USE_WEIGHTED_CENTER, image, scan.best, scan.top)
        /\ \A weighted \in BOOLEAN :
              \A g \in DetectReturns(weighted, image, scan.best, scan.top) :
                  Len(g) = 3 /\ g[3] = scan.best.radius

\* the centre search ended with candidates whose weighted centre is not
\* the best candidate's centre
C16_Witness ==
    /\ Ran("center")
    /\ n_candidates > Len(scan.top)
    /\ \E i \in 1..Len(scan.top) : scan.top[i].radius # scan.best.radius
    /\ \E g \in DetectReturns(TRUE, image, scan.best, scan.top) :
          <<g[1], g[2]>> # <<geometry[1], geometry[2]>>

-----------------------------------------------------------------------------
(* Properties of the clock conversion (SpecMap)                            *)

\* C15: for every detected angle a, negative and 360 or more included, the
\* clock angle _angle_to_value uses is (90 - a) mod 360: it lies in
\* [0, 360) and differs from 90 - a by whole turns; math 0 is clock 90,
\* math 90 clock 0, math 180 clock 270 and math 270 clock 180. On a dial
\* calibrated from 0 to 12 hours the value returned is that clock angle's
\* share of the full turn.
C15_ClockAngle ==
    LET a == needle_angle[1]
        c == ClockAngle(a)
    IN  /\ 0 <= c /\ c < Deg(360)
        /\ \E turns \in {0, 1} : c = Deg(90) - a + turns * Deg(360)
        /\ a = Deg(0) => c = Deg(90)
        /\ a = Deg(90) => c = Deg(0)
        /\ a = Deg(180) => c = Deg(270)
        /\ a = Deg(270) => c = Deg(180)
        /\ (/\ pc = "done"
            /\ config.cal["min_angle_hours"] = 0 /\ config.cal["max_angle_hours"] = 12
            /\ config.cal["min_value"] = 0)
           => (result.kind = "value"
               /\ result.num * Deg(360) = c * config.cal["max_value"] * result.den)

\* a detected angle of more than a full turn has been mapped
C15_Witness ==
    /\ pc = "done"
    /\ needle_angle[1] >= Deg(360)
    /\ ClockAngle(needle_angle[1]) = Deg(90) - needle_angle[1] + Deg(360)
    /\ config.cal["min_angle_hours"] = 0 /\ config.cal["max_angle_hours"] = 12
    /\ config.cal["min_value"] = 0
    /\ result.kind = "value" /\ result.num > 0

-----------------------------------------------------------------------------
(* The common gauge configurations of the angle test (SpecMap)             *)

\* configs of test_angle_conversions: min_hours, max_hours, min_val, max_val
CommonConfigurations ==
    {Calibration(7, 5, 0, 100), Calibration(8, 4, -20, 50), Calibration(9, 3, 0, 1)}

\* the test's third needle position: (min_hours + max_hours) * 15 degrees
MeanHoursClock(cfg) == (cfg["min_angle_hours"] + cfg["max_angle_hours"]) * Deg(15)

\* the test's expected reading there: (min_val + max_val) / 2
MidScale(cfg) == Rat(cfg["min_value"] + cfg["max_value"], 2)

\* "approximately": within a tenth of the scale
Approximately(v, target, cfg) ==
    LET span == cfg["max_value"] - cfg["min_value"]
        diff == v.num * target.den - target.num * v.den
    IN  10 * (IF diff < 0 THEN -diff ELSE diff) <= span * v.den * target.den

-----------------------------------------------------------------------------
(* The test runners' angle-to-value calculation (SpecMap)                  *)

\* time_to_degrees of a whole clock hour: 12 o'clock is 0 degrees, every
\* other hour (hour % 12) * 30
time_to_degrees(hour) == IF hour = 12 THEN Deg(0) ELSE (hour % 12) * Deg(30)

\* angle_normalized of the runners, from start_deg, end_deg, detected_deg
RunnerAngleNormalized(start_deg, end_deg, detected_deg) ==
    IF start_deg > end_deg
    THEN IF detected_deg >= start_deg
         THEN detected_deg - start_deg
         ELSE (Deg(360) - start_deg) + detected_deg
    ELSE detected_deg - start_deg

\* total_range of the runners
RunnerTotalRange(start_deg, end_deg) ==
    IF start_deg > end_deg THEN (Deg(360) - start_deg) + end_deg ELSE end_deg - start_deg

\* calculated_value of validate_test_vector, for a test case with the
\* calibration's hours and values and the needle at detected_hour: not
\* clamped
validate_test_vector(cfg, detected_hour) ==
    LET start_deg == time_to_degrees(cfg["min_angle_hours"])
        end_deg == time_to_degrees(cfg["max_angle_hours"])
        detected_deg == time_to_degrees(detected_hour)
        total_range == RunnerTotalRange(start_deg, end_deg)
        value_range == cfg["max_value"] - cfg["min_value"]
    IN  IF total_range = 0
        THEN Rat(cfg["min_value"], 1)
        ELSE Rat(RunnerAngleNormalized(start_deg, end_deg, detected_deg) * value_range
                     + cfg["min_value"] * total_range,
                 total_range)

\* result of run_single_test: the same calculation, then
\* max(min_value, min(max_value, result))
run_single_test(cfg, detected_hour) ==
    Clamped(cfg["min_value"], cfg["max_value"], validate_test_vector(cfg, detected_hour))

\* C19: for every test case (start and end position in whole clock hours
\* 0..12, min and max value, needle at a whole clock hour) the value
\* run_single_test and validate_test_vector compute equals the value
\* _angle_to_value returns for the same calibration hours and the math angle
\* of the needle's clock position.
C19_RunnersAgree ==
    pc = "done" =>
        \A detected_hour \in 0..MaxHours :
            ClockAngle(needle_angle[1]) = time_to_degrees(detected_hour) =>
                /\ result.kind = "value"
                /\ RatEq(result, run_single_test(config.cal, detected_hour))
                /\ RatEq(result, validate_test_vector(config.cal, detected_hour))

-----------------------------------------------------------------------------
(* Properties of the too-bright check (Spec)                               *)

\* best_angle and best_score of the coarse scan of the current invocation
CoarseBestNow == CoarseBest(image, geometry[1], geometry[2], geometry[3])

\* the coarse scan found an angle whose average brightness is above 200
FoundTooBright ==
    /\ Ran("needle")
    /\ CoarseBestNow.valid_points > 0
    /\ TooBright(CoarseBestNow)

\* C17: when a needle angle is found and its best average brightness
\* exceeds 200, detection does not fail: _find_needle_angle_simple returns
\* the refined angle it returns without the check, the pipeline goes on to
\* the mapping, and process_image returns what the mapping gives for that
\* angle, a value whenever the calibration is complete.
C17_TooBrightStillRead ==
    FoundTooBright =>
        /\ needle_angle = <<_refine_needle_angle(image, geometry[1], geometry[2],
                                                 CoarseBestNow.angle,
                                                 NeedleEndRadius(geometry[3]))>>
        /\ pc \in {"map", "done"}
        /\ pc = "done" =>
              /\ Ran("map")
              /\ result = ProcessImageExcept(ReadGaugeExcept(
                              _angle_to_value(config.cal, needle_angle[1])))
              /\ CalKeys \subseteq DOMAIN config.cal => result.kind = "value"

\* an invocation on a bright dial face without a needle has returned a
\* value
C17_Witness ==
    /\ FoundTooBright
    /\ pc = "done"
    /\ CoarseBestNow.score = 255 * CoarseBestNow.valid_points
    /\ result.kind = "value"

-----------------------------------------------------------------------------
(* One invocation as a function of its inputs                              *)

\* geometry, needle angle and result of an invocation
Outcome(g, a, r) == [geometry |-> g, needle_angle |-> a, result |-> r]

\* _read_analog_gauge_simple from the needle search on, with the geometry g
\* of the centre search
ReadFromNeedle(cfg, gray, g, a) ==
    IF a = None
    THEN Outcome(g, a, ReturnNone)
    ELSE Outcome(g, a, ProcessImageExcept(ReadGaugeExcept(_angle_to_value(cfg.cal, a[1]))))

\* _read_analog_gauge_simple from the unpacking of the geometry on
ReadFromCenter(cfg, gray, g) ==
    IF Len(g) # 3
    THEN Outcome(g, None, ProcessImageExcept(ReadGaugeExcept(Raise("ValueError"))))
    ELSE ReadFromNeedle(cfg, gray, g, _find_needle_angle_simple(gray, g[1], g[2], g[3]))

\* _read_analog_gauge_simple on the cropped image: a two-dimensional array
\* with samples is searched, anything else raises in the conversion
ReadAnalogGauge(cfg, cropped) ==
    IF cropped.kind # "gray" \/ cropped.w = 0 \/ cropped.h = 0
    THEN Outcome(<<>>, None, ProcessImageExcept(ReadGaugeExcept(Raise("ValueError"))))
    ELSE ReadFromCenter(cfg, cropped, _detect_gauge_center(cropped))

\* process_image(image) of a processor with configuration cfg, run on its
\* own from start to end
process_image(cfg, img) ==
    IF CropRaises(cfg, img)
    THEN Outcome(<<>>, None, ProcessImageExcept(Raise("IndexError")))
    ELSE ReadAnalogGauge(cfg, crop_image(cfg, img))

\* the argument is an image: a two-dimensional array, possibly without
\* samples (what becomes of a one-dimensional array is decided by the
\* imaging library)
TwoDimensional(img) == img.kind # "one_dim"

-----------------------------------------------------------------------------
(* Determinism (Spec)                                                      *)

\* C13: an invocation's geometry, needle angle and value are those of the
\* pipeline run on its image and calibration alone, whatever invocations
\* came before it and in whatever order: every finished invocation agrees
\* with process_image as a function of its inputs.
C13_Deterministic ==
    (pc = "done" /\ TwoDimensional(input)) =>
        Outcome(geometry, needle_angle, result) = process_image(config, input)

\* an invocation on a dial has finished with a geometry, a needle angle and
\* a value
C13_Witness ==
    /\ pc = "done"
    /\ result.kind = "value"
    /\ input.r = 8
    /\ needle_angle # None
    /\ Len(geometry) = 3

-----------------------------------------------------------------------------
(* Two invocations of process_image on one processor, interleaved          *)

\* the locals of the running invocation
Locals ==
    [input |-> input, image |-> image, pc |-> pc, stages |-> stages,
     n_candidates |-> n_candidates, scan |-> scan, geometry |-> geometry,
     needle_angle |-> needle_angle, caught |-> caught, result |-> result]

\* the scheduler takes the running invocation off its thread and runs the
\* other one: each keeps its own locals, the processor is shared
Switch ==
    /\ constructed = "processor"
    /\ suspended' = Locals
    /\ input' = suspended.input
    /\ image' = suspended.image
    /\ pc' = suspended.pc
    /\ stages' = suspended.stages
    /\ n_candidates' = suspended.n_candidates
    /\ scan' = suspended.scan
    /\ geometry' = suspended.geometry
    /\ needle_angle' = suspended.needle_angle
    /\ caught' = suspended.caught
    /\ result' = suspended.result
    /\ UNCHANGED <<constructed, config, coordinator, update>>
    /\ UNCHANGED hass

\* the images of the interleaved invocations: no dial, and a dial with the
\* needle to the right and upwards
ConcurrentImages ==
    {Flat(ImageSize, ImageSize, 128)}
        \cup {Gray(ImageSize, ImageSize, 0, ImageSize \div 2, ImageSize \div 2, 8, d[1], d[2]) :
                d \in {<<1, 0>>, <<0, -1>>}}

ConcurrentConfigs ==
    {[cal |-> Calibration(7, 5, 0, 6), crop |-> c] : c \in {NoCrop, Crop(4, 4, 16, 16)}}

InitConcurrent ==
    /\ constructed = "processor"
    /\ config \in ConcurrentConfigs
    /\ input = Empty
    /\ image = Empty
    /\ pc = "idle"
    /\ stages = <<>>
    /\ n_candidates = 0
    /\ scan = NoScan
    /\ geometry = <<>>
    /\ needle_angle = None
    /\ caught = ""
    /\ result = Pending
    /\ suspended = NotStarted
    /\ coordinator = NewCoordinator
    /\ update = NoUpdate
    /\ hass = NoHass

ProcessConcurrentImage == ProcessImageFrom(ConcurrentImages)

NextConcurrent ==
    \/ ProcessConcurrentImage
    \/ CropImage
    \/ ConvertGray
    \/ DetectGaugeCenter
    \/ FindNeedleAngle
    \/ AngleToValue
    \/ Switch

SpecConcurrent == InitConcurrent /\ [][NextConcurrent]_vars

\* each finished invocation, the running and the suspended one, has the
\* result of process_image run alone on its image
AloneResults ==
    /\ pc = "done" => result = process_image(config, input).result
    /\ suspended.pc = "done" => suspended.result = process_image(config, suspended.input).result

\* C14: in every interleaving of two invocations of process_image on one
\* processor, each invocation, the running and the suspended one, ends with
\* the result it has when it runs alone, and no step of either writes the
\* processor or its configuration.
C14_Reentrant == []AloneResults /\ [][constructed' = constructed /\ config' = config]_vars

\* both invocations have finished, on different images, after running
\* interleaved: one has a value and the other none
C14_Witness ==
    /\ pc = "done" /\ suspended.pc = "done"
    /\ input # suspended.input
    /\ result.kind = "value"
    /\ suspended.result.kind = "None"
    /\ suspended.stages = <<"crop", "convert", "center">>

-----------------------------------------------------------------------------
(* The polling cycle of the sensor platform                                *)

\* the processors of the configuration entry, one sensor entity each
NumProcessors == 2

Processors == 1..NumProcessors

\* what processor.process_image(cropped_image) does in a cycle: a reading
\* (0 is one), None, or an exception
ProcessorOutcomes == {Return(Rat(0, 1)), Return(Rat(3, 1)), ReturnNone, Raise("Exception")}

\* results[f"processor_{i}"]: the value, and "error" when the call raised
ResultEntry(outcome) ==
    IF outcome.kind = "raise"
    THEN [value |-> ReturnNone, error |-> outcome.exc]
    ELSE [value |-> outcome, error |-> ""]

\* _async_update_data raises UpdateFailed. The first refresh
\* (async_config_entry_first_refresh) then fails the platform setup, no
\* entity is added and the setup starts over with a new coordinator; a
\* later refresh sets last_update_success to False and keeps data.
UpdateFailed(got, calls) ==
    /\ coordinator' = IF coordinator.entities
                      THEN [coordinator EXCEPT !.last_update_success = FALSE]
                      ELSE NewCoordinator
    /\ update' = [update EXCEPT !.pc = "idle", !.results = <<>>, !.got = got,
                                !.calls = calls, !.outcome = "UpdateFailed"]

\* image = await self.image_processor.get_image(): an image, None (raise
\* UpdateFailed) or an exception (except Exception: raise UpdateFailed)
GetImage ==
    /\ update.pc = "idle"
    /\ \E got \in {"image", "None", "raise"} :
          IF got = "image"
          THEN /\ update' = [update EXCEPT !.pc = "crop", !.got = got, !.calls = <<>>,
                                           !.outcome = ""]
               /\ UNCHANGED coordinator
          ELSE UpdateFailed(got, <<>>)
    /\ UNCHANGED <<constructed, config, input, image, pc, stages, n_candidates, scan, geometry,
                   needle_angle, caught, result, suspended>>
    /\ UNCHANGED hass

\* cropped_image = self.image_processor.crop_image(image): returns, or
\* raises into except Exception: raise UpdateFailed
CropForProcessors ==
    /\ update.pc = "crop"
    /\ \E raises \in BOOLEAN :
          IF raises
          THEN UpdateFailed(update.got, update.calls)
          ELSE update' = [update EXCEPT !.pc = "process"] /\ UNCHANGED coordinator
    /\ UNCHANGED <<constructed, config, input, image, pc, stages, n_candidates, scan, geometry,
                   needle_angle, caught, result, suspended>>
    /\ UNCHANGED hass

\* a stand-in without the inner try: an exception of a processor ends the
\* update in except Exception: raise UpdateFailed
ProcessWithoutTry ==
    /\ update.pc = "process"
    /\ Len(update.results) < NumProcessors
    /\ \E outcome \in ProcessorOutcomes :
          IF outcome.kind = "raise"
          THEN UpdateFailed(update.got, Append(update.calls, outcome))
          ELSE /\ update' = [update EXCEPT !.results = Append(@, ResultEntry(outcome)),
                                           !.calls = Append(@, outcome)]
               /\ UNCHANGED coordinator
    /\ UNCHANGED <<constructed, config, input, image, pc, stages, n_candidates, scan, geometry,
                   needle_angle, caught, result, suspended>>
    /\ UNCHANGED hass

\* one turn of the loop over self.processors: the result, or value None
\* with the error when process_image raises
ProcessWith ==
    /\ update.pc = "process"
    /\ Len(update.results) < NumProcessors
    /\ \E outcome \in ProcessorOutcomes :
          update' = [update EXCEPT !.results = Append(@, ResultEntry(outcome)),
                                   !.calls = Append(@, outcome)]
    /\ UNCHANGED <<constructed, config, input, image, pc, stages, n_candidates, scan, geometry,
                   needle_angle, caught, result, suspended, coordinator>>
    /\ UNCHANGED hass

\* return results: the refresh stores them in data, sets
\* last_update_success, and after the first refresh the entities are added
ReturnResults ==
    /\ update.pc = "process"
    /\ Len(update.results) = NumProcessors
    /\ coordinator' = [fetched |-> TRUE, data |-> update.results,
                       last_update_success |-> TRUE, entities |-> TRUE]
    /\ update' = [update EXCEPT !.pc = "idle", !.results = <<>>,
                                !.returned = update.results, !.outcome = "results"]
    /\ UNCHANGED <<constructed, config, input, image, pc, stages, n_candidates, scan, geometry,
                   needle_angle, caught, result, suspended>>
    /\ UNCHANGED hass

\* ImageSensorEntity.native_value of the entity of processor i
native_value(i) ==
    IF coordinator.fetched /\ coordinator.data # <<>> /\ i \in DOMAIN coordinator.data
    THEN coordinator.data[i].value
    ELSE ReturnNone

\* a stand-in that looks at the entry only
AvailableIgnoresFailure(i) ==
    IF ~coordinator.fetched THEN "None"
    ELSE IF coordinator.data = <<>> THEN "{}"
    ELSE IF i \notin DOMAIN coordinator.data THEN "False"
    ELSE IF coordinator.data[i].value.kind # "None" THEN "True" ELSE "False"

\* ImageSensorEntity.available of the entity of processor i: the first
\* falsy operand of the `and` chain, else the last operand
available(i) ==
    IF ~coordinator.last_update_success THEN "False"
    ELSE IF ~coordinator.fetched THEN "None"
    ELSE IF coordinator.data = <<>> THEN "{}"
    ELSE IF i \notin DOMAIN coordinator.data THEN "False"
    ELSE IF coordinator.data[i].value.kind # "None" THEN "True" ELSE "False"

InitPoll ==
    /\ constructed = "processor"
    /\ config = [cal |-> DefaultCalibration, crop |-> NoCrop]
    /\ input = Empty
    /\ image = Empty
    /\ pc = "idle"
    /\ stages = <<>>
    /\ n_candidates = 0
    /\ scan = NoScan
    /\ geometry = <<>>
    /\ needle_angle = None
    /\ caught = ""
    /\ result = Pending
    /\ suspended = NotStarted
    /\ coordinator = NewCoordinator
    /\ update = NoUpdate
    /\ hass = NoHass

NextPoll ==
    \/ GetImage
    \/ CropForProcessors
    \/ ProcessWith
    \/ ReturnResults

SpecPoll == InitPoll /\ [][NextPoll]_vars

\* the last polling cycle left processor i without a reading, or failed
NoReadingOrFailed(i) ==
    \/ ~coordinator.last_update_success
    \/ coordinator.data[i].value.kind = "None"

\* C18, as stated: after a polling cycle in which a processor produced no
\* reading or the update failed, its entity reports available == False and
\* native_value None; the entity is available only when the last update
\* succeeded and its entry holds a value.
C18_UnavailableAndNone ==
    coordinator.entities =>
        \A i \in Processors :
            /\ NoReadingOrFailed(i) => (available(i) = "False" /\ native_value(i) = ReturnNone)
            /\ available(i) = "True"
               => (coordinator.last_update_success /\ coordinator.data[i].value.kind = "value")

\* C18, amended: after a cycle that left the processor without a reading
\* or failed, its entity reports available == False; native_value is None
\* after a cycle without a reading, and after a failed update it still is
\* the value of the last successful cycle. The entity is available exactly
\* when the last update succeeded and its entry holds a value.
C18_UnavailableKeepsLastValue ==
    coordinator.entities =>
        \A i \in Processors :
            /\ NoReadingOrFailed(i) => available(i) = "False"
            /\ native_value(i) = update.returned[i].value
            /\ (coordinator.last_update_success /\ update.returned[i].value.kind = "None")
               => native_value(i) = ReturnNone
            /\ available(i) = "True"
               <=> (coordinator.last_update_success /\ coordinator.data[i].value.kind = "value")
            /\ available(i) \in {"True", "False"}

\* an update has failed after a cycle that read a value: the entity is
\* unavailable and its native_value is that value
C18_Witness ==
    /\ coordinator.entities
    /\ ~coordinator.last_update_success
    /\ update.pc = "idle"
    /\ available(1) = "False"
    /\ native_value(1) = Return(Rat(3, 1))
    /\ native_value(2) = ReturnNone

----------------------------------------------------------------------------
(* The dead zone of a wrap-around calibration (SpecMap)                    *)

\* the calibration wraps (min_angle_deg > max_angle_deg), its values ascend
\* or are equal, and the needle's clock angle lies strictly between
\* max_angle_deg and min_angle_deg, outside the dial's sweep
InDeadZone ==
    /\ pc = "done"
    /\ Wraps(config.cal)
    /\ config.cal["min_value"] <= config.cal["max_value"]
    /\ ClockAngle(needle_angle[1]) > HoursToDeg(config.cal["max_angle_hours"])
    /\ ClockAngle(needle_angle[1]) < HoursToDeg(config.cal["min_angle_hours"])

\* C22, as stated: for a wrap-around calibration with min_value <= max_value
\* every clock angle of the dead zone maps to max_value, and none maps to
\* min_value.
C22_DeadZoneIsMax ==
    InDeadZone =>
        (Returned(config.cal["max_value"]) /\ ~Returned(config.cal["min_value"]))

\* C22, amended: for a wrap-around calibration with a non-zero angular span
\* and min_value <= max_value every clock angle of the dead zone maps to
\* max_value, the angles just below min_angle_deg included; when min_value
\* is less than max_value none of them maps to min_value.
C22_DeadZoneIsMaxOfNonZeroSpan ==
    (InDeadZone /\ SpanNonZero) =>
        /\ Returned(config.cal["max_value"])
        /\ config.cal["min_value"] < config.cal["max_value"] =>
               ~Returned(config.cal["min_value"])

\* a needle half a degree below min_angle_deg of the calibration 7 to 5
\* o'clock has been mapped to max_value
C22_Witness ==
    /\ InDeadZone
    /\ SpanNonZero
    /\ config.cal["min_value"] < config.cal["max_value"]
    /\ ClockAngle(needle_angle[1]) = HoursToDeg(config.cal["min_angle_hours"]) - 1
    /\ Returned(config.cal["max_value"])

----------------------------------------------------------------------------
(* One coordinator update (SpecPoll)                                       *)

\* C28: an update that acquired an image and returned holds exactly one
\* entry for every processor; the entry of a processor that raised has value
\* None and an error text, every other processor was still run and its entry
\* holds its own result, so an exception of a processor never ends the
\* update; and when get_image returns None the update raises UpdateFailed
\* and runs no processor.
C28_OneEntryPerProcessor ==
    /\ update.outcome = "results" =>
          /\ update.got = "image"
          /\ DOMAIN update.returned = Processors
          /\ DOMAIN update.calls = Processors
          /\ \A i \in Processors :
                IF update.calls[i].kind = "raise"
                THEN update.returned[i].value = ReturnNone /\ update.returned[i].error # ""
                ELSE update.returned[i] = [value |-> update.calls[i], error |-> ""]
    /\ (update.pc = "idle" /\ \E i \in DOMAIN update.calls : update.calls[i].kind = "raise")
          => update.outcome = "results"
    /\ update.got = "None" =>
          (update.pc = "idle" /\ update.outcome = "UpdateFailed" /\ update.calls = <<>>)

\* an update has returned in which the first processor raised and the
\* second read 3
C28_Witness ==
    /\ update.outcome = "results"
    /\ update.calls[1].kind = "raise"
    /\ update.returned[1] = [value |-> ReturnNone, error |-> "Exception"]
    /\ update.returned[2] = [value |-> Return(Rat(3, 1)), error |-> ""]

----------------------------------------------------------------------------
(* The search functions on their own: _measure_circle_edge_strength,        *)
(* _find_needle_angle_simple and _refine_needle_angle for a given image,    *)
(* centre and radius                                                        *)

\* a bright image with one dark ray from its middle, along (dx, dy)
RayImage(dx, dy) ==
    Gray(LargeSize, LargeSize, 255, LargeSize \div 2, LargeSize \div 2, LargeSize \div 2 - 1,
         dx, dy)

\* rays to the right, up, to the left and down; a dial with and without
\* needle on a dark image; a constant image
ProbeImages ==
    {RayImage(d[1], d[2]) : d \in {<<1, 0>>, <<0, -1>>, <<-1, 0>>, <<0, 1>>}}
        \cup {Gray(LargeSize, LargeSize, 0, LargeSize \div 2, LargeSize \div 2, 13, d[1], d[2]) :
                d \in {<<0, 0>>, <<1, 0>>}}
        \cup {Flat(LargeSize, LargeSize, 128)}

\* the centre handed to the functions: the middle of the image, beside it,
\* at its border, outside it
ProbeCenters(img) ==
    {<<img.w \div 2, img.h \div 2>>, <<img.w \div 2 + 5, img.h \div 2 + 3>>, <<2, img.h \div 2>>,
     <<-3, -3>>}

\* the radius handed to the functions
ProbeRadii == {6, 7, 10, 13, 15, 17}

\* the coarse angles handed to _refine_needle_angle, in degrees
ProbeCoarseAngles == {0, 5, 90, 180, 355}

InitProbe ==
    /\ constructed = "processor"
    /\ config = [cal |-> DefaultCalibration, crop |-> NoCrop]
    /\ image \in ProbeImages
    /\ input = image
    /\ pc = "probe"
    /\ stages = <<>>
    /\ n_candidates = 0
    /\ scan = NoScan
    /\ geometry \in {<<c[1], c[2], r>> : c \in ProbeCenters(image), r \in ProbeRadii}
    /\ needle_angle = None
    /\ caught = ""
    /\ result = Pending
    /\ suspended = NotStarted
    /\ coordinator = NewCoordinator
    /\ update = NoUpdate
    /\ hass = NoHass

\* score = self._measure_circle_edge_strength(gray_array, cx, cy, radius),
\* for the radii whose perimeter angles are tabulated
MeasureEdge ==
    /\ pc = "probe"
    /\ NumSamples(geometry[3]) \in DOMAIN CosCircleTable
    /\ pc' = "measured"
    /\ scan' = [best |-> [cx |-> geometry[1], cy |-> geometry[2], radius |-> geometry[3],
                          score |-> _measure_circle_edge_strength(image, geometry[1],
                                                                  geometry[2], geometry[3])],
                top |-> <<>>, candidates |-> <<>>]
    /\ UNCHANGED <<constructed, config, input, image, stages, n_candidates, geometry,
                   needle_angle, caught, result, suspended, coordinator, update>>
    /\ UNCHANGED hass

\* the coarse loop of _find_needle_angle_simple: best_angle and best_score
\* after it
CoarseScan ==
    /\ pc = "probe"
    /\ pc' = "coarse"
    /\ scan' = [best |-> CoarseBest(image, geometry[1], geometry[2], geometry[3]),
                top |-> <<>>, candidates |-> <<>>]
    /\ UNCHANGED <<constructed, config, input, image, stages, n_candidates, geometry,
                   needle_angle, caught, result, suspended, coordinator, update>>
    /\ UNCHANGED hass

\* the rest of _find_needle_angle_simple: the refinement and the return
FindNeedle ==
    /\ pc = "coarse"
    /\ pc' = "found"
    /\ needle_angle' = _find_needle_angle_simple(image, geometry[1], geometry[2], geometry[3])
    /\ UNCHANGED <<constructed, config, input, image, stages, n_candidates, scan, geometry,
                   caught, result, suspended, coordinator, update>>
    /\ UNCHANGED hass

\* self._refine_needle_angle(gray_array, cx, cy, coarse_angle, radius) for
\* any coarse angle
RefineFrom ==
    /\ pc = "probe"
    /\ pc' = "refined"
    /\ \E c \in ProbeCoarseAngles :
          /\ scan' = [best |-> [angle |-> Deg(c), score |-> 0, valid_points |-> 0],
                      top |-> <<>>, candidates |-> <<>>]
          /\ needle_angle' = <<_refine_needle_angle(image, geometry[1], geometry[2], Deg(c),
                                                    geometry[3])>>
    /\ UNCHANGED <<constructed, config, input, image, stages, n_candidates, geometry,
                   caught, result, suspended, coordinator, update>>
    /\ UNCHANGED hass

NextProbe ==
    \/ MeasureEdge
    \/ CoarseScan
    \/ FindNeedle
    \/ RefineFrom

SpecProbe == InitProbe /\ [][NextProbe]_vars

----------------------------------------------------------------------------
(* Properties of the needle search (SpecProbe)                             *)

\* score and valid_points of the ray at `angle` from the probed centre,
\* sampled at the radii of the set `radii`
ProbeRay(angle, radii) ==
    RaySum(image, angle,
           [i \in 1..Cardinality(radii) |->
               LET r == CHOOSE q \in radii : Cardinality({p \in radii : p < q}) = i - 1
               IN  <<PyInt(geometry[1], r, CosDeg(angle)), PyInt(geometry[2], -r, SinDeg(angle))>>])

\* the integer radii startRadius <= r < endRadius of the coarse scan
CoarseBand ==
    LET endRadius == (3 * geometry[3]) \div 4
        startRadius == IF endRadius \div 8 > 5 THEN endRadius \div 8 ELSE 5
    IN  {r \in 0..LargeSize : startRadius <= r /\ r < endRadius}

\* C24: the best angle of the coarse scan is a multiple of 5 in [0, 360)
\* whose average brightness over the in-bounds samples of the band is not
\* above that of any other scanned angle with an in-bounds sample, and is
\* below that of every smaller such angle.
C24_CoarseBestIsDarkest ==
    (pc = "coarse" /\ scan.best.valid_points > 0) =>
        /\ scan.best.angle \in {Deg(5 * k) : k \in 0..71}
        /\ \E best \in {ProbeRay(scan.best.angle, CoarseBand)} :
              /\ best.valid_points > 0
              /\ best.score = scan.best.score /\ best.valid_points = scan.best.valid_points
              /\ \A k \in 0..71 :
                    \E other \in {ProbeRay(Deg(5 * k), CoarseBand)} :
                        other.valid_points > 0 =>
                            /\ other.score * best.valid_points
                                  >= best.score * other.valid_points
                            /\ Deg(5 * k) < scan.best.angle =>
                                  other.score * best.valid_points
                                      > best.score * other.valid_points

\* the coarse scan of a ray pointing left has ended on 180 degrees, after
\* brighter angles with in-bounds samples
C24_Witness ==
    /\ pc = "coarse"
    /\ image = RayImage(-1, 0)
    /\ geometry = <<LargeSize \div 2, LargeSize \div 2, 17>>
    /\ scan.best.angle = Deg(180)
    /\ scan.best.valid_points > 0
    /\ scan.best.score = 0

\* the radii 8, 10, 12, ... below endRadius of the refinement
RefineBand == {r \in 8..(geometry[3] - 1) : r % 2 = 0}

\* the 17 refinement candidates c + 0.5 * k, k in -8..8, as rays
RefineCandidates == [k \in -8..8 |-> ProbeRay(scan.best.angle + k, RefineBand)]

RayAngle(img) ==
    CASE <<img.dx, img.dy>> = <<1, 0>> -> Deg(0)
      [] <<img.dx, img.dy>> = <<0, -1>> -> Deg(90)
      [] <<img.dx, img.dy>> = <<-1, 0>> -> Deg(180)
      [] <<img.dx, img.dy>> = <<0, 1>> -> Deg(270)

\* the image is bright but for one dark ray, the probed centre is the
\* ray's origin, and the ray reaches through the whole search band
RayThroughBand ==
    /\ image \in {RayImage(d[1], d[2]) : d \in {<<1, 0>>, <<0, -1>>, <<-1, 0>>, <<0, 1>>}}
    /\ <<geometry[1], geometry[2]>> = <<image.cx0, image.cy0>>
    /\ CoarseBand # {}
    /\ \A r \in CoarseBand : r <= image.r

\* C21: on a bright image with one dark ray at angle theta from the given
\* centre, through the search band, _find_needle_angle_simple returns an
\* angle within half a degree of theta.
C21_RayFoundWithinHalfDegree ==
    (pc = "found" /\ RayThroughBand) =>
        /\ needle_angle # None
        /\ (needle_angle[1] - RayAngle(image)) % Deg(360) \in {0, 1, Deg(360) - 1}

----------------------------------------------------------------------------
(* Properties of _measure_circle_edge_strength (SpecProbe)                 *)

\* the point of perimeter sample i at distance d from the probed centre
PerimeterPoint(i, d) ==
    <<PyInt(geometry[1], d, CosCircle(NumSamples(geometry[3]), i)),
      PyInt(geometry[2], d, SinCircle(NumSamples(geometry[3]), i))>>

\* the inner, edge and outer point of every perimeter sample
PerimeterSamples ==
    [i \in 0..(NumSamples(geometry[3]) - 1) |->
        [inner |-> PerimeterPoint(i, geometry[3] - RingOffset(geometry[3])),
         edge |-> PerimeterPoint(i, geometry[3]),
         outer |-> PerimeterPoint(i, geometry[3] + RingOffset(geometry[3]))]]

\* the samples whose three points are all inside the image
ValidSamples(pts) ==
    {i \in DOMAIN pts :
        \A ring \in {"inner", "edge", "outer"} :
            /\ 0 <= pts[i][ring][1] /\ pts[i][ring][1] < image.w
            /\ 0 <= pts[i][ring][2] /\ pts[i][ring][2] < image.h}

\* the brightness of one ring summed over the samples of `valid`
RECURSIVE RingTotal(_, _, _)
RingTotal(pts, valid, ring) ==
    IF valid = {} THEN 0
    ELSE LET i == CHOOSE j \in valid : TRUE
         IN  Pixel(image, pts[i][ring][1], pts[i][ring][2]) + RingTotal(pts, valid \ {i}, ring)

\* C25: the edge strength is never negative; it is 0 when fewer than 75% of
\* the perimeter samples are valid (inner, edge and outer point all inside
\* the image); otherwise it is max(0, (avgInner - avgOuter) + (avgInner -
\* avgEdge)), the three averages taken over the same valid samples.
C25_EdgeStrength ==
    pc = "measured" =>
        \E pts \in {PerimeterSamples} :
            \E valid \in {ValidSamples(pts)} :
                /\ scan.best.score.num >= 0 /\ scan.best.score.den > 0
                /\ IF 4 * Cardinality(valid) < 3 * NumSamples(geometry[3])
                   THEN scan.best.score.num = 0
                   ELSE \E total \in {2 * RingTotal(pts, valid, "inner")
                                         - RingTotal(pts, valid, "outer")
                                         - RingTotal(pts, valid, "edge")} :
                           scan.best.score.num * Cardinality(valid)
                               = (IF total > 0 THEN total ELSE 0) * scan.best.score.den

\* a circle has been measured whose samples are all valid and whose inner
\* ring is darker than its edge and outer ring: the score is clamped to 0
C25_Witness ==
    /\ pc = "measured"
    /\ scan.best.score.num = 0
    /\ \E pts \in {PerimeterSamples} :
          /\ ValidSamples(pts) = DOMAIN pts
          /\ 2 * RingTotal(pts, DOMAIN pts, "inner")
                < RingTotal(pts, DOMAIN pts, "outer") + RingTotal(pts, DOMAIN pts, "edge")

----------------------------------------------------------------------------
(* The best single candidate (Spec)                                        *)

\* candidate a comes before candidate b in scan order: cy ascending, then
\* cx, then radius
ScannedBefore(a, b) ==
    \/ a.cy < b.cy
    \/ a.cy = b.cy /\ a.cx < b.cx
    \/ a.cy = b.cy /\ a.cx = b.cx /\ a.radius < b.radius

\* C26: in the default mode, when a scanned triple has a positive score, the
\* returned geometry is the centre and radius of one scanned candidate whose
\* score is not below any other candidate's, and among the candidates of
\* that score it is the first in scan order.
C26_BestSingleCandidate ==
    (Ran("center") /\ n_candidates > 0 /\ ~USE_WEIGHTED_CENTER) =>
        \E k \in 1..Len(scan.candidates) :
            /\ geometry = <<scan.candidates[k].cx, scan.candidates[k].cy,
                            scan.candidates[k].radius>>
            /\ \A j \in 1..Len(scan.candidates) :
                  /\ RatLeq(scan.candidates[j].score, scan.candidates[k].score)
                  /\ (j # k /\ RatEq(scan.candidates[j].score, scan.candidates[k].score))
                        => ScannedBefore(scan.candidates[k], scan.candidates[j])

\* the search has returned the first of several candidates of the greatest
\* score
C26_Witness ==
    /\ Ran("center")
    /\ n_candidates > 1
    /\ geometry = <<scan.best.cx, scan.best.cy, scan.best.radius>>
    /\ \E j \in 1..Len(scan.candidates) :
          /\ RatEq(scan.candidates[j].score, scan.best.score)
          /\ ScannedBefore(scan.best, scan.candidates[j])

----------------------------------------------------------------------------
(* crop_image on its own: every crop configuration of a bounded family     *)

\* crop_x and crop_y, and crop_width and crop_height: any integers, as the
\* configuration flow accepts them
CropOrigins == {-3, 0, 5, LargeSize}

CropExtents == {-LargeSize, -5, 0, 10, 100}

CropConfigs ==
    {[cal |-> DefaultCalibration, crop |-> Crop(x, y, width, height)] :
        x \in CropOrigins, y \in CropOrigins, width \in CropExtents, height \in CropExtents}
        \cup {[cal |-> DefaultCalibration, crop |-> NoCrop]}

\* process_image is about to crop a wide and a tall image
InitCrop ==
    /\ constructed = "processor"
    /\ config \in CropConfigs
    /\ image \in {Flat(LargeSize, ImageSize, 128), Flat(ImageSize, LargeSize, 128)}
    /\ input = image
    /\ pc = "crop"
    /\ stages = <<>>
    /\ n_candidates = 0
    /\ scan = NoScan
    /\ geometry = <<>>
    /\ needle_angle = None
    /\ caught = ""
    /\ result = Pending
    /\ suspended = NotStarted
    /\ coordinator = NewCoordinator
    /\ update = NoUpdate
    /\ hass = NoHass

NextCrop == CropImage

SpecCrop == InitCrop /\ [][NextCrop]_vars

\* C27: for every image and every integer crop configuration, negative
\* values included, crop_image returns a rectangle inside the image whose
\* width and height exceed neither the requested ones nor the image's;
\* without a crop configuration it returns the image unchanged.
C27_CropWithinRequest ==
    (Ran("crop") /\ caught = "") =>
        IF config.crop.present
        THEN /\ 0 <= image.ox /\ image.ox + image.w <= input.w
             /\ 0 <= image.oy /\ image.oy + image.h <= input.h
             /\ 0 <= image.w /\ image.w <= input.w /\ image.w <= config.crop.width
             /\ 0 <= image.h /\ image.h <= input.h /\ image.h <= config.crop.height
        ELSE image = input

(***************************************************************************)
(* The life of the config entries (SpecEntries): Home Assistant sets up,   *)
(* unloads and reloads the entries the wizard created, and the user         *)
(* submits the form of the options flow.                                    *)
(***************************************************************************)
EntryIds == {"gauge_a", "gauge_b"}

\* the entries whose options the user edits
OptionEntries == {"gauge_a"}

\* the data of an entry as the wizard (ConfigFlow) leaves it
WizardData(e, image_source) ==
    LET common ==
            [name |-> e,
             image_source |-> image_source,
             crop_config |-> [crop_x |-> 0, crop_y |-> 0, crop_width |-> 100,
                              crop_height |-> 100],
             processors |-> <<[type |-> PROCESSOR_ANALOG_GAUGE,
                               config |-> [units |-> "bar"]]>>,
             scan_interval |-> 30]
    IN  IF image_source = SOURCE_FILE
        THEN DictSet(common, "image_path", <<" ", "/", "g">>)
        ELSE DictSet(common, "camera_entity", <<"c">>)

\* the image paths and camera entities a form can hold
FormPaths == {<<>>, <<"\t", " ">>, <<" ", "/", "g">>}

FormCameras == {<<" ">>, <<"c">>}

\* the submitted forms: the source, the path and the camera entity (each may
\* be left out), and the defaults of the other fields
UserInputs ==
    {[image_source |-> s, crop_x |-> 0, crop_y |-> 0, crop_width |-> 100, crop_height |-> 100,
      units |-> "bar", scan_interval |-> 30] @@ p @@ c :
        s \in {SOURCE_FILE, SOURCE_CAMERA},
        p \in {EmptyDict} \cup {DictSet(EmptyDict, "image_path", x) : x \in FormPaths},
        c \in {EmptyDict} \cup {DictSet(EmptyDict, "camera_entity", x) : x \in FormCameras}}

\* the operation that runs now, as hass.last keeps it
Operation(op, e, unload_ok, user_input) ==
    [NoOperation EXCEPT !.op = op, !.entry = e, !.unload_ok = unload_ok,
                        !.stored_before = DOMAIN hass.data,
                        !.services_before = hass.services,
                        !.user_input = user_input]

InitEntries ==
    /\ constructed = "no"
    /\ config = [cal |-> DefaultCalibration, crop |-> NoCrop]
    /\ input = Empty
    /\ image = Empty
    /\ pc = "new"
    /\ stages = <<>>
    /\ n_candidates = 0
    /\ scan = NoScan
    /\ geometry = <<>>
    /\ needle_angle = None
    /\ caught = ""
    /\ result = Pending
    /\ suspended = NotStarted
    /\ coordinator = NewCoordinator
    /\ update = NoUpdate
    /\ \E source \in [EntryIds -> {SOURCE_FILE, SOURCE_CAMERA}] :
          hass = [NoHass EXCEPT !.entries = [e \in EntryIds |->
                                               [state |-> "not_loaded",
                                                data |-> WizardData(e, source[e])]]]

\* Home Assistant sets up an entry that is not loaded
SetupEntry ==
    \E e \in EntryIds, forwarded \in BOOLEAN :
        /\ hass.entries[e].state \in {"not_loaded", "setup_error"}
        /\ hass' = [async_setup_entry(hass, e, forwarded)
                      EXCEPT !.last = Operation("setup", e, TRUE, EmptyDict)]
        /\ UNCHANGED <<constructed, config, input, image, pc, stages, n_candidates, scan,
                       geometry, needle_angle, caught, result, suspended, coordinator, update>>

\* Home Assistant unloads a loaded entry
UnloadEntry ==
    \E e \in EntryIds, unload_ok \in BOOLEAN :
        /\ hass.entries[e].state = "loaded"
        /\ hass' = [Unloaded(hass, e, unload_ok)
                      EXCEPT !.last = Operation("unload", e, unload_ok, EmptyDict)]
        /\ UNCHANGED <<constructed, config, input, image, pc, stages, n_candidates, scan,
                       geometry, needle_angle, caught, result, suspended, coordinator, update>>

\* the update listener of an entry whose data changed runs
UpdateOptions ==
    \E e \in hass.pending, unload_ok \in BOOLEAN, forwarded \in BOOLEAN :
        /\ hass' = [async_update_options(hass, e, unload_ok, forwarded)
                      EXCEPT !.pending = @ \ {e},
                             !.last = Operation("reload", e,
                                                hass.entries[e].state = "loaded" => unload_ok,
                                                EmptyDict)]
        /\ UNCHANGED <<constructed, config, input, image, pc, stages, n_candidates, scan,
                       geometry, needle_angle, caught, result, suspended, coordinator, update>>

\* the options flow of an entry runs its init step
OptionsInit ==
    \E e \in OptionEntries, submitted \in BOOLEAN :
      \E user_input \in (IF submitted THEN UserInputs ELSE {EmptyDict}) :
        /\ \E h \in {async_step_init([hass EXCEPT !.last =
                                        Operation(IF submitted THEN "options" ELSE "options_form",
                                                  e, TRUE, user_input)],
                                     e, user_input, submitted)} :
              hass' = [h EXCEPT !.last.entry_kept = (h.entries[e].data = hass.entries[e].data)]
        /\ UNCHANGED <<constructed, config, input, image, pc, stages, n_candidates, scan,
                       geometry, needle_angle, caught, result, suspended, coordinator, update>>

NextEntries ==
    \/ SetupEntry
    \/ UnloadEntry
    \/ UpdateOptions
    \/ OptionsInit

SpecEntries == InitEntries /\ [][NextEntries]_vars

(***************************************************************************)
(* The services and the stored entries (SpecEntries)                       *)
(***************************************************************************)
\* an entry whose last setup raised before it registered the services
SetupAborted == \E e \in EntryIds : hass.entries[e].state = "setup_error"

ServicesRegistered == Services \subseteq hass.services

ServicesRemoved == hass.services \cap Services = {}

\* C29: while no setup was aborted by an exception, the four services are
\* all registered when hass.data[DOMAIN] stores an entry and none of them is
\* when it stores none; an unload that removed the services was the unload of
\* the only stored entry; and an unload (alone or in a reload) whose platform
\* unload failed left the stored entries and the services as they were.
C29_ServicesFollowEntries ==
    /\ ~SetupAborted =>
          IF DOMAIN hass.data # {} THEN ServicesRegistered ELSE ServicesRemoved
    /\ (/\ hass.last.op = "unload"
        /\ hass.last.services_before \cap Services # {}
        /\ ~ServicesRegistered)
          => /\ hass.last.unload_ok
             /\ hass.last.stored_before = {hass.last.entry}
    /\ (hass.last.op \in {"unload", "reload"} /\ ~hass.last.unload_ok)
          => /\ hass.last.entry \in DOMAIN hass.data
             /\ DOMAIN hass.data = hass.last.stored_before
             /\ hass.services = hass.last.services_before

\* an entry was unloaded while another one was stored, and the services stayed
C29_Witness ==
    /\ hass.last.op = "unload"
    /\ hass.last.unload_ok
    /\ hass.last.stored_before = EntryIds
    /\ DOMAIN hass.data = EntryIds \ {hass.last.entry}
    /\ ServicesRegistered

(***************************************************************************)
(* The init step of the options flow (SpecEntries)                         *)
(***************************************************************************)
\* the field the selected source needs
RequiredField(user_input) ==
    IF user_input.image_source = SOURCE_FILE THEN "image_path" ELSE "camera_entity"

\* a string of no characters or of white space only
Blank(s) == \A i \in 1..Len(s) : s[i] \in Whitespace

MissingOrBlank(user_input) ==
    \/ RequiredField(user_input) \notin DOMAIN user_input
    \/ Blank(user_input[RequiredField(user_input)])

\* C30: a submitted form whose source is file and whose image path is missing
\* or blank, or whose source is camera and whose camera entity is missing or
\* blank, gets the form again with the error 'required' on that field and
\* leaves the data of the config entry as it was; the data is changed, and
\* the flow finished, only by a form that is not of this kind, and the data
\* the finished flow stored has one processor, of type analog_gauge_reader.
C30_RequiredFieldChecked ==
    hass.last.op = "options" =>
        /\ MissingOrBlank(hass.last.user_input)
              => /\ hass.last.type = "form"
                 /\ DOMAIN hass.last.errors = {RequiredField(hass.last.user_input)}
                 /\ hass.last.errors[RequiredField(hass.last.user_input)] = "required"
                 /\ hass.last.entry_kept
        /\ (~hass.last.entry_kept \/ hass.last.type = "create_entry")
              => /\ ~MissingOrBlank(hass.last.user_input)
                 /\ hass.last.type = "create_entry"
                 /\ Len(hass.entries[hass.last.entry].data.processors) = 1
                 /\ hass.entries[hass.last.entry].data.processors[1].type = "analog_gauge_reader"

\* a form with the file source and a path of white space was submitted for
\* an entry that is loaded
C30_Witness ==
    /\ hass.last.op = "options"
    /\ hass.last.user_input.image_source = SOURCE_FILE
    /\ "image_path" \in DOMAIN hass.last.user_input
    /\ hass.last.user_input.image_path # <<>>
    /\ Blank(hass.last.user_input.image_path)
    /\ hass.entries[hass.last.entry].state = "loaded"
    /\ hass.last.type = "form"
    /\ hass.last.entry_kept

====
